---- MODULE Spec2Model ----
(***************************************************************************)
(* State-machine model of the sub-subtest orchestration of                 *)
(* dockertest/subtest.py: SubSubtestCaller (children run one after the     *)
(* other, all stages per child) and SubSubtestCallerSimultaneous (children *)
(* run stage by stage), driven through the Subtest lifecycle               *)
(* initialize -> run_once x iterations -> postprocess -> cleanup.          *)
(*                                                                         *)
(* Every call of a child method (initialize, run_once, postprocess,        *)
(* cleanup) is an input: it returns, or raises one of ChildExcKinds.       *)
(* Exceptions are instances of Exception subclasses.                       *)
(***************************************************************************)
EXTENDS Integers, Sequences, FiniteSets, TLC

\* ------------------------------------------------------------------ bounds
\* Longest 'subsubtests' list explored.
MaxNames == 2
\* Largest 'iterations' option explored.
MaxIterations == 2

\* Longest 'disable' option explored, in characters.
MaxDisableLen == 3
\* Longest config section name explored, in characters.
MaxSectionLen == 2

\* Config() calls made, and changes callers make to the copies they got.
MaxCopies == 3

MaxMutations == 1

\* Longest header given to ColumnRanges, most lines after the header of a
\* small table, and most rows a table grows to.
MaxHeaderLen == 3

MaxLines == 2

MaxRows == 5

\* Most docker commands DockerContainersCLI runs.
MaxCommands == 4

\* Longest 'subsubtests' option, in characters.
MaxOptionLen == 3

\* Longest stderr of a docker command, in characters.
MaxStderrLen == 2

\* Most children a parent constructs.
MaxChildren == 2

\* Longest output of a background docker command, in characters.
MaxStdoutLen == 2

\* Names of the child classes a 'subsubtests' option may list.
Classes == {"A", "B"}

\* ------------------------------------------------------------- exceptions
\* What a child method may raise: a test failure, a not-applicable signal
\* (both autotest errors), or any other Exception subclass.
ChildExcKinds == {"DockerTestFail", "DockerTestNAError", "Exception"}

\* Outcome of one call of a child method.
Outcomes == {"ok"} \cup ChildExcKinds

\* Outcome of new_subsubtest(name): an instance, None (the class is no
\* SubSubtest, or its constructor raised DockerSubSubtestNAError), or an
\* exception (imp.find_module finds no module, issubclass is given None).
NewOutcomes == {"instance", "none", "raises"}

\* The exception classes that derive from autotest's AutotestError.
AutotestErrors == {"DockerTestFail", "DockerTestNAError", "DockerTestError", "TestError"}

\* An exception object: its class, the child instance and the method that
\* raised it, and the names a report carries.
Exc(kind, inst, stage) == [kind |-> kind, inst |-> inst, stage |-> stage, report |-> {}]

Report(kind, stage, names) == [kind |-> kind, inst |-> 0, stage |-> stage, report |-> names]

\* No exception.
NoExc == Exc("none", 0, "none")

\* 'except AutotestError' matches an exception of this class.
IsAutotestError(kind) == kind \in AutotestErrors

\* The exception classes 'except DockerSubSubtestNAError' matches:
\* DockerTestNAError, the class check_disable raises, is not one of them.
SubSubtestNAErrors == {"DockerSubSubtestNAError"}

\* ------------------------------------------------------------------ state
VARIABLES
    variant,            \* "seq": SubSubtestCaller, "sim": SubSubtestCallerSimultaneous
    subsubtests,        \* the 'subsubtests' option, as the list of its entries
    iterations,         \* Subtest.iterations
    iteration,          \* Subtest.iteration
    hstage,             \* the lifecycle method the harness is in
    pc,                 \* position inside that method
    idx,                \* loop index into subsubtest_names
    todo,               \* names still to visit in a loop over a dictionary
    subsubtest_names,   \* SubSubtestCaller.subsubtest_names
    start_subsubtests,  \* name -> instance (0: no entry)
    run_subsubtests,    \* name -> instance (0: no entry)
    post_subsubtests,   \* name -> instance (0: no entry)
    final_subsubtests,  \* SubSubtestCaller.final_subsubtests
    final_local,        \* local final_subsubtests of the simultaneous postprocess
    cleanup_failures,   \* local cleanup_failures of the simultaneous cleanup
    ninst,              \* number of child instances constructed so far
    cur,                \* sequential variant: the child being run and its call log
    cleanups,           \* per instance: number of cleanup() calls made on it
    sim_calls,          \* simultaneous variant, per instance: calls made and failures
    raised,             \* exception that left initialize/run_once/postprocess
    cleanup_raised,     \* exception that left the orchestrator's cleanup
    post_result,        \* outcome of the orchestrator's postprocess comparison
    config_section,     \* Subtest.config_section, a string
    disable,            \* the 'disable' option of Subtest.config, a string or absent
    entered,            \* the stage methods the harness has entered, in order
    cd_own,             \* a ConfigDict: the options of its section, name -> string
    cd_defaults,        \* a ConfigDict: its defaults, name -> string
    lk_key,             \* the key of the last ConfigDict lookup
    lk_result,          \* what that lookup returned or raised
    files,              \* the ini files: directory -> section -> options
    singleton,          \* Config._singleton is set
    defaults_,          \* Config.defaults_: the cached DEFAULTS options
    configs_,           \* Config.configs_: section -> address of its ConfigDict
    heap,               \* the mappings in memory, by address
    copies,             \* the Config() calls made: what each returned
    reads,              \* how often the ini files were read, per cache
    built_from,         \* the ini files as they were when configs_ was built
    ini,                \* the sections a parent and its child are configured by
    parent_config,      \* Subtest.config of the parent
    child_config,       \* SubSubtest.config of the child
    table,              \* a TextTable: its columns, rows and allow_duplicate
    table_op,           \* the last call on ColumnRanges or TextTable
    containers,         \* the docker daemon: long id -> state of the container
    commands,           \* the docker commands DockerContainersCLI has run
    kill_result,        \* what the last kill_container_by_long_id did
    option_text,        \* the 'subsubtests' option as the ini file has it
    new_calls,          \* the names new_subsubtest was called with, in order
    dicts,              \* the config dictionaries in memory, by address
    refs,               \* the addresses of the parent's and the children's config
    cmdresult,          \* the result of the docker command of a test
    verdict,            \* that test, its options, and what its postprocess did
    dkrcmd,             \* a docker command running in the background
    polling             \* where the run_once waiting for it is

vars == <<variant, subsubtests, iterations, iteration, hstage, pc, idx, todo,
          subsubtest_names, start_subsubtests, run_subsubtests, post_subsubtests,
          final_subsubtests, final_local, cleanup_failures, ninst,
          cur, cleanups, sim_calls, raised, cleanup_raised, post_result,
          config_section, disable, entered, cd_own, cd_defaults, lk_key,
          lk_result, files, singleton, defaults_, configs_,
          heap, copies, reads, built_from, ini, parent_config, child_config,
          table, table_op, containers, commands, kill_result,
          option_text, new_calls, dicts, refs, cmdresult, verdict, dkrcmd, polling>>

cache_vars == <<files, singleton, defaults_, configs_, heap, copies, reads,
               built_from>>

inherit_vars == <<ini, parent_config, child_config>>

\* The variables of the subtest classes and of a ConfigDict, but hstage.
subtest_vars == <<variant, subsubtests, iterations, iteration, pc, idx, todo,
                  subsubtest_names, start_subsubtests, run_subsubtests,
                  post_subsubtests, final_subsubtests, final_local,
                  cleanup_failures, ninst, cur, cleanups, sim_calls, raised,
                  cleanup_raised, post_result, config_section, disable,
                  entered, cd_own, cd_defaults, lk_key, lk_result>>

table_vars == <<table, table_op>>

kill_vars == <<containers, commands, kill_result>>

names_vars == <<option_text, new_calls>>

frame_vars == <<dicts, refs>>

result_vars == <<cmdresult, verdict>>

polling_vars == <<dkrcmd, polling>>

rest_vars == <<names_vars, frame_vars, result_vars, polling_vars>>

\* ---------------------------------------------------------------- helpers
EmptyDict == [n \in Classes |-> 0]

Keys(d) == {n \in Classes : d[n] # 0}

Values(d) == {d[n] : n \in Keys(d)}

SeqsUpTo(S, n) == UNION {[1..k -> S] : k \in 0..n}

\* A string is the sequence of its characters.
SectionChars == {"a", "b"}

OptionChars == SectionChars \cup {",", " "}

\* An option the config does not have.
NoOption == <<"absent">>

\* str.split(sep) for a one-character separator.
RECURSIVE Split(_, _)
Split(s, sep) ==
    IF \A i \in 1..Len(s) : s[i] # sep
    THEN <<s>>
    ELSE LET i == CHOOSE k \in 1..Len(s) :
                      s[k] = sep /\ \A j \in 1..(k - 1) : s[j] # sep
         IN <<SubSeq(s, 1, i - 1)>> \o Split(SubSeq(s, i + 1, Len(s)), sep)

\* The elements of a list.
Range(list) == {list[i] : i \in 1..Len(list)}

NoChild == [inst |-> 0, name |-> "", calls |-> <<>>, stage_exc |-> NoExc,
            pending |-> NoExc, cleanup_exc |-> NoExc, added |-> FALSE]

\* Simultaneous variant, per instance: the calls made on it, the stages that
\* raised, whether one of them raised something that is no AutotestError, and
\* whether one of them raised DockerTestNAError.
NoCalls == [name |-> "", initialize |-> 0, run_once |-> 0, postprocess |-> 0,
            failed |-> {}, unexpected |-> FALSE, na |-> FALSE]

NoResult == [done |-> FALSE, start |-> {}, final |-> {}]

\* ------------------------------------------- variants of the code below
\* Each differs from the operator it is named after in one decision.
TryAllStagesCatchHideAll(exc) == NoExc

TryAllStagesCatchRaiseAll(exc) == exc

AddsToFinalWhenOver(stage_exc, last) == stage_exc # NoExc \/ last

FinallyRunsCleanupOnSuccessOnly(pending) == pending = NoExc

FinallyRunsCleanupNever(pending) == FALSE

RunAllStagesLeavingLogOnly(name, inst, pending, cleanup_exc) == pending

FailedTestsSwapped(start, final) == final \ start

SimRunOnceItemsOfStart(start, run) == Keys(start)

SimPostprocessCatchNothing(exc) == exc

\* ------------------------------------------------ new_subsubtest: the code
\* SubSubtest.__init__: the 'enable' option is looked at first, then the
\* parent's check_disable on the child's config section.
SubSubtestInit(enable, disabled) ==
    IF ~enable THEN "DockerSubSubtestNAError"
    ELSE IF disabled THEN "DockerTestNAError"
    ELSE "ok"

\* new_subsubtest: what getattr(mod, name, None) finds in the module of the
\* parent: a SubSubtest subclass, another class, something that is no class,
\* or nothing.
OwnModule == {"SubSubtest", "class", "object", "missing"}

\* The module file named after the child: there is none, or what it holds
\* under the child's name.
ExternalModule == {"no module"} \cup OwnModule

\* new_subsubtest: cls, looked for in the parent's module first and in the
\* module file named after the child when the first getattr gave None;
\* imp.find_module raises ImportError when there is no such file.
FindClass(own, external) ==
    IF own # "missing" THEN own
    ELSE IF external = "no module" THEN "ImportError"
    ELSE external

\* new_subsubtest: issubclass(cls, SubSubtest) is true, is false, or raises
\* TypeError because cls is None or no class; an ImportError is passed on.
Load(own, external) ==
    CASE FindClass(own, external) = "SubSubtest" -> "class"
      [] FindClass(own, external) = "class" -> "other"
      [] OTHER -> "raises"

\* new_subsubtest: 'except DockerSubSubtestNAError' around the constructor.
NewSubsubtestCatches(kind) == kind \in SubSubtestNAErrors

\* new_subsubtest: its outcome and, when it raises, the exception.
NewSubsubtest(load, enable, disabled) ==
    LET made == SubSubtestInit(enable, disabled)
    IN CASE load = "raises" ->
              [out |-> "raises", exc |-> Exc("Exception", 0, "new_subsubtest")]
         [] load = "other" -> [out |-> "none", exc |-> NoExc]
         [] made = "ok" -> [out |-> "instance", exc |-> NoExc]
         [] NewSubsubtestCatches(made) -> [out |-> "none", exc |-> NoExc]
         [] OTHER -> [out |-> "raises", exc |-> Exc(made, 0, "new_subsubtest")]

\* --------------------------------------------------- sequential: the code
\* try_all_stages: the stages called on a child, in order.
SeqStages == <<"initialize", "run_once", "postprocess">>

\* try_all_stages: what leaves it when a stage raised exc, the exception
\* call_subsubtest_method has just recorded in exception_info["exc_info"].
\* AutotestError is logged and hidden, anything else is raised again from
\* the recorded exc_info.
TryAllStagesCatch(exc) ==
    IF IsAutotestError(exc.kind) THEN NoExc ELSE exc

\* try_all_stages: final_subsubtests.add(name) is the last statement of the
\* try block: it runs when the last stage was called and no stage raised.
AddsToFinal(stage_exc, last) == stage_exc = NoExc /\ last

\* run_all_stages: 'finally' runs cleanup() whatever left try_all_stages.
FinallyRunsCleanup(pending) == TRUE

\* run_all_stages: what leaves it, given what left try_all_stages and what
\* cleanup() raised. A cleanup failure is raised as error.TestError.
RunAllStagesLeaving(name, inst, pending, cleanup_exc) ==
    IF cleanup_exc # NoExc
    THEN [kind |-> "TestError", inst |-> inst, stage |-> "cleanup", report |-> {name}]
    ELSE pending

\* postprocess: the failed children.
FailedTests(start, final) == start \ final

\* postprocess: whether it raises DockerTestFail.
SeqPostprocessRaises(start, final) == FailedTests(start, final) # {}

\* ------------------------------------------------- simultaneous: the code
\* initialize: what leaves the loop when a child's initialize raised exc
\* ('except AutotestError' logs it, anything else is not caught).
SimInitializeCatch(exc) ==
    IF IsAutotestError(exc.kind) THEN NoExc ELSE exc

\* initialize: the child is entered in run_subsubtests when its initialize
\* returned.
SimInitializeAdmits(exc) == exc = NoExc

\* run_once: the children visited, the items of run_subsubtests.
SimRunOnceItems(start, run) == Keys(run)

\* run_once: what leaves the loop when a child's run_once raised exc.
SimRunOnceCatch(exc) ==
    IF IsAutotestError(exc.kind) THEN NoExc ELSE exc

\* run_once: the child is entered in post_subsubtests when its run_once
\* returned.
SimRunOnceAdmits(exc) == exc = NoExc

\* postprocess: the children visited, the items of post_subsubtests.
SimPostprocessItems(run, post) == Keys(post)

\* postprocess: what leaves the loop when a child's postprocess raised exc.
SimPostprocessCatch(exc) ==
    IF IsAutotestError(exc.kind) THEN NoExc ELSE exc

\* postprocess: whether it raises DockerTestFail.
SimPostprocessRaises(start, final) == ~(final = start)

\* cleanup: the children visited, the items of start_subsubtests.
SimCleanupItems(start, run) == Keys(start)

\* cleanup: what leaves the loop when a child's cleanup raised exc.
SimCleanupCatch(exc) ==
    IF IsAutotestError(exc.kind) THEN NoExc ELSE exc

\* cleanup: whether it raises DockerTestError after the loop.
SimCleanupRaises(failures) == Cardinality(failures) > 0

\* ======================================== config.py: strings and coercions
Digits == <<"0", "1", "2", "3", "4", "5", "6", "7", "8", "9">>

UpperCase == <<"A", "B", "C", "D", "E", "F", "G", "H", "I", "J", "K", "L", "M",
               "N", "O", "P", "Q", "R", "S", "T", "U", "V", "W", "X", "Y", "Z">>

LowerCase == <<"a", "b", "c", "d", "e", "f", "g", "h", "i", "j", "k", "l", "m",
               "n", "o", "p", "q", "r", "s", "t", "u", "v", "w", "x", "y", "z">>

Whitespace == {" ", "\n"}

LowerChar(c) ==
    IF c \in Range(UpperCase)
    THEN LowerCase[CHOOSE i \in 1..Len(UpperCase) : UpperCase[i] = c]
    ELSE c

\* str.lower()
Lower(s) == [i \in 1..Len(s) |-> LowerChar(s[i])]

\* str.strip()
Strip(s) ==
    LET black == {i \in 1..Len(s) : s[i] \notin Whitespace}
    IN IF black = {} THEN <<>>
       ELSE SubSeq(s, CHOOSE i \in black : \A j \in black : i <= j,
                      CHOOSE i \in black : \A j \in black : i >= j)

IsDigits(s) == s # <<>> /\ \A i \in 1..Len(s) : s[i] \in Range(Digits)

DigitValue(c) == (CHOOSE i \in 1..Len(Digits) : Digits[i] = c) - 1

RECURSIVE DigitsValue(_)
DigitsValue(s) ==
    IF s = <<>> THEN 0
    ELSE 10 * DigitsValue(SubSeq(s, 1, Len(s) - 1)) + DigitValue(s[Len(s)])

Signed(s) == s # <<>> /\ s[1] \in {"+", "-"}

Unsigned(s) == IF Signed(s) THEN Tail(s) ELSE s

Sign(s) == IF s # <<>> /\ s[1] = "-" THEN -1 ELSE 1

\* A coerced value: its type and, by type, the integer, the truth value (as
\* 0 or 1), the decimal number num / 10^scale, or the string.
Typed(type, num, scale, text) ==
    [type |-> type, num |-> num, scale |-> scale, text |-> text]

\* A coercion raised ValueError.
ValueError == Typed("ValueError", 0, 0, <<>>)

\* int(value)
ToInt(s) ==
    LET t == Strip(s)
    IN IF IsDigits(Unsigned(t))
       THEN Typed("int", Sign(t) * DigitsValue(Unsigned(t)), 0, <<>>)
       ELSE ValueError

\* float(value), for decimal literals without an exponent
ToFloat(s) ==
    LET t == Strip(s)
        u == Unsigned(t)
        dots == {i \in 1..Len(u) : u[i] = "."}
        digits == SelectSeq(u, LAMBDA c : c # ".")
    IN IF Cardinality(dots) <= 1 /\ IsDigits(digits)
       THEN Typed("float", Sign(t) * DigitsValue(digits),
                  IF dots = {} THEN 0 ELSE Len(u) - (CHOOSE i \in dots : TRUE),
                  <<>>)
       ELSE ValueError

Bool(b) == Typed("bool", IF b THEN 1 ELSE 0, 0, <<>>)

\* SafeConfigParser.getboolean: RawConfigParser._boolean_states
StdTrue == {<<"1">>, <<"y", "e", "s">>, <<"t", "r", "u", "e">>, <<"o", "n">>}

StdFalse == {<<"0">>, <<"n", "o">>, <<"f", "a", "l", "s", "e">>, <<"o", "f", "f">>}

StdGetBoolean(s) ==
    IF Lower(s) \in StdTrue THEN Bool(TRUE)
    ELSE IF Lower(s) \in StdFalse THEN Bool(FALSE)
    ELSE ValueError

GetBooleanStandardOnly(s) == StdGetBoolean(s)

\* ConfigSection.getboolean
GetBoolean(s) ==
    LET value == Strip(Lower(s))
    IN IF value \in {<<"y", "e", "s">>, <<"t", "r", "u", "e">>} THEN Bool(TRUE)
       ELSE IF value \in {<<"n", "o">>, <<"f", "a", "l", "s", "e">>} THEN Bool(FALSE)
       ELSE StdGetBoolean(s)

\* ConfigSection.get<suffix>
GetSuffix(suffix, s) ==
    CASE suffix = "int" -> ToInt(s)
      [] suffix = "boolean" -> GetBoolean(s)
      [] suffix = "float" -> ToFloat(s)
      [] OTHER -> Typed("str", 0, 0, s)

CoercionOrderBooleanFirst == <<"boolean", "int", "float", "">>

\* ConfigDict.__getitem__: the suffixes tried, in order.
CoercionOrder == <<"int", "boolean", "float", "">>

\* ConfigDict.__getitem__: the loop over the suffixes; the first method that
\* does not raise ValueError gives the value.
TypedLookup(s) ==
    LET ok == {i \in 1..Len(CoercionOrder) :
                   GetSuffix(CoercionOrder[i], s) # ValueError}
    IN IF ok = {} THEN Typed("DockerConfigError", 0, 0, <<>>)
       ELSE GetSuffix(CoercionOrder[CHOOSE i \in ok : \A j \in ok : i <= j], s)

\* ------------------------------------------------------------ ConfigDict
\* Option names as SafeConfigParser stores them (optionxform lower-cases).
OptionNames == {<<"k">>, <<"j">>}

\* Keys a caller may ask for.
LookupKeys == {<<"k">>, <<"K">>, <<"j">>, <<"J">>, <<"z">>}

NoOptions == [k \in OptionNames |-> NoOption]

NoLookup == Typed("none", 0, 0, <<>>)

\* ConfigDict._keyset
KeySet(own, defaults) ==
    {Lower(k) : k \in {o \in OptionNames : own[o] # NoOption}}
        \cup {Lower(k) : k \in {o \in OptionNames : defaults[o] # NoOption}}

\* ConfigDict.__contains__
Contains(own, defaults, item) == Lower(item) \in KeySet(own, defaults)

RawGetDefaultFirst(own, defaults, option) ==
    IF defaults[option] # NoOption THEN defaults[option] ELSE own[option]

\* SafeConfigParser.get: the section's option, else the default.
RawGet(own, defaults, option) ==
    IF own[option] # NoOption THEN own[option] ELSE defaults[option]

GetItemCaseSensitive(own, defaults, key) ==
    IF key \notin KeySet(own, defaults)
    THEN Typed("DockerKeyError", 0, 0, key)
    ELSE TypedLookup(RawGet(own, defaults, key))

\* ConfigDict.__getitem__
GetItem(own, defaults, key) ==
    LET k == Lower(key)
    IN IF ~Contains(own, defaults, k)
       THEN Typed("DockerKeyError", 0, 0, k)
       ELSE TypedLookup(RawGet(own, defaults, k))

\* The strings stored in the option the lookups are tried on.
Words ==
    {<<>>, <<"0">>, <<"1">>, <<"4", "2">>, <<"-", "7">>, <<"+", "5">>,
     <<"0", "0", "7">>, <<"4", " ", "2">>,
     <<"3", ".", "1", "4">>, <<".", "5">>, <<"5", ".">>, <<".">>,
     <<"1", ".", "2", ".", "3">>, <<"-", "0", ".", "5">>,
     <<"h", "e", "l", "l", "o">>, <<"y">>, <<"y", "e", "s">>,
     <<"Y", "e", "s">>, <<"Y", "E", "S">>, <<"t", "r", "u", "e">>,
     <<"T", "r", "u", "e">>, <<"n", "o">>, <<"N", "O">>,
     <<"f", "a", "l", "s", "e">>, <<"F", "a", "l", "s", "e">>,
     <<"o", "n">>, <<"O", "n">>, <<"o", "f", "f">>, <<"O", "F", "F">>,
     <<"y", "e", "s", " ", "n", "o">>}

Pad(w) == {w, <<" ">> \o w, w \o <<" ">>, <<" ">> \o w \o <<" ">>}

StoredValues == UNION {Pad(w) : w \in Words}

\* Strings given to __setitem__ while the model runs.
SetValues == {<<"0">>, <<"n", "o">>, <<"h", "i">>}

\* ---------------------------------------------------------------- Config
\* The directories Config.configs walks, in the order it walks them.
ConfigDirs == <<"config_defaults", "config_custom">>

\* Section names in the ini files; DEFAULTS is the section of defaults.ini.
Sections == {"DEFAULTS", "S", "T"}

\* Section names a caller may use in its copy.
CopySections == Sections \cup {"U"}

\* A section as a file declares it, and a section a file does not have.
Section(options) == [present |-> TRUE, options |-> options]

NoSection == [present |-> FALSE, options |-> NoOptions]

\* A file: its name and its sections. A directory is the list of its files
\* in the order os.walk gives them.
File(name, sections) == [name |-> name, sections |-> sections]

NoContent == [sec \in Sections |-> NoSection]

NoFiles == [dir \in Range(ConfigDirs) |-> <<>>]

\* DEFAULTSFILE
DefaultsFile == "defaults.ini"

\* File names that do not start with '.' and end with '.ini'.
IniNames == {DefaultsFile, "a.ini", "b.ini"}

\* A value a plain dictionary does not have.
Absent == Typed("absent", 0, 0, <<>>)

\* A cache that is still None, and one holding a dictionary.
NotBuilt == [built |-> FALSE, options |-> NoOptions]

Built(options) == [built |-> TRUE, options |-> options]

\* No address: the dictionary has no entry for the section.
NoAddress == 0

NoSections == [sec \in Sections |-> NoAddress]

NotBuiltConfigs == [built |-> FALSE, sections |-> NoSections]

\* A mapping in memory: a ConfigDict (options of its section as strings, and
\* its SafeConfigParser's own copy of the defaults) or a plain dict (typed
\* values).
NewConfigDict(options, defaults_dict) ==
    [kind |-> "ConfigDict", own |-> options, defaults |-> defaults_dict]

NewDict(items) == [kind |-> "dict", own |-> items, defaults |-> NoOptions]

NoItems == [key \in OptionNames |-> Absent]

\* An address nothing refers to.
Free == [kind |-> "free", own |-> NoOptions, defaults |-> NoOptions]

\* The address a section's mapping gets, counted from the last one in use.
SectionOrder == <<"DEFAULTS", "S", "T">>

Slot(sec) == CHOOSE i \in 1..Len(SectionOrder) : SectionOrder[i] = sec

\* SafeConfigParser.read(<directory>/defaults.ini) and items('DEFAULTS'): the
\* DEFAULTS section of the directory's defaults.ini, if there is one.
DefaultsSection(dir) ==
    LET named == {i \in 1..Len(dir) : dir[i].name = DefaultsFile}
    IN IF named = {} THEN NoSection
       ELSE dir[CHOOSE i \in named : TRUE].sections["DEFAULTS"]

NeedsBuildAlways(cache) == TRUE

\* 'if self.__class__.defaults_ is None', 'if self.__class__.configs_ is None'
NeedsBuild(cache) == ~cache.built

ReadDefaultsMerged(fs) ==
    LET custom == DefaultsSection(fs["config_custom"])
        default == DefaultsSection(fs["config_defaults"])
    IN [present |-> custom.present \/ default.present,
        options |-> [key \in OptionNames |->
                        IF custom.options[key] # NoOption
                        THEN custom.options[key] ELSE default.options[key]]]

\* Config.defaults: the DEFAULTS section of config_custom's defaults.ini, else
\* that of config_defaults; items('DEFAULTS') raises NoSectionError when
\* neither has the section (the result is then not present).
ReadDefaults(fs) ==
    IF DefaultsSection(fs["config_custom"]).present
    THEN DefaultsSection(fs["config_custom"])
    ELSE DefaultsSection(fs["config_defaults"])

LoadFileMerging(file, configs_dict, defaults_dict) ==
    IF file.name \notin IniNames THEN configs_dict
    ELSE [sec \in Sections |->
             IF file.sections[sec].present
             THEN [present |-> TRUE,
                   object |-> NewConfigDict(
                       [key \in OptionNames |->
                           IF file.sections[sec].options[key] # NoOption
                           THEN file.sections[sec].options[key]
                           ELSE configs_dict[sec].object.own[key]],
                       defaults_dict)]
             ELSE configs_dict[sec]]

\* Config.load_config_dir, the body of its loop: a file whose name starts
\* with '.' or does not end with '.ini' is skipped; every section of the file
\* gets a new ConfigDict, which replaces the one an earlier file gave it.
LoadFile(file, configs_dict, defaults_dict) ==
    IF file.name \notin IniNames THEN configs_dict
    ELSE [sec \in Sections |->
             IF file.sections[sec].present
             THEN [present |-> TRUE,
                   object |-> NewConfigDict(file.sections[sec].options,
                                            defaults_dict)]
             ELSE configs_dict[sec]]

\* Config.load_config_dir
RECURSIVE LoadConfigDir(_, _, _)
LoadConfigDir(filenames, configs_dict, defaults_dict) ==
    IF filenames = <<>> THEN configs_dict
    ELSE LoadConfigDir(Tail(filenames),
                       LoadFile(Head(filenames), configs_dict, defaults_dict),
                       defaults_dict)

\* Config.configs: the walk over CONFIGDEFAULT, then over CONFIGCUSTOMS.
WalkConfigs(fs, defaults_dict) ==
    LoadConfigDir(fs[ConfigDirs[2]],
                  LoadConfigDir(fs[ConfigDirs[1]],
                                [sec \in Sections |->
                                    [present |-> FALSE, object |-> Free]],
                                defaults_dict),
                  defaults_dict)

\* Mapping.items() of a ConfigDict: every key of _keyset() with the value
\* __getitem__ gives; dict.items() of a plain dict.
Items(obj) ==
    IF obj.kind = "dict"
    THEN obj.own
    ELSE [key \in OptionNames |->
             IF key \in KeySet(obj.own, obj.defaults)
             THEN GetItem(obj.own, obj.defaults, key)
             ELSE Absent]

CopyRefShared(cached, fresh) == cached

\* Config.copy: the_copy[sec_key] = sec_copy, a new plain dict.
CopyRef(cached, fresh) == fresh

\* Values a caller stores in its copy.
MutationValues == {Typed("str", 0, 0, <<"h", "i">>)}

\* mapping[key] = value: a plain dict stores the value, a ConfigDict
\* str(value).
SetItem(obj, key, value) ==
    IF obj.kind = "dict"
    THEN [obj EXCEPT !.own[key] = value]
    ELSE [obj EXCEPT !.own[key] = value.text]

\* del mapping[key]
DelItem(obj, key) ==
    IF obj.kind = "dict"
    THEN [obj EXCEPT !.own[key] = Absent]
    ELSE [obj EXCEPT !.own[key] = NoOption]

NoReads == [defaults |-> 0, configs |-> 0]

\* ------------------------------------------------------- SubSubtest.config
\* os.path.join(parent.config_section, class name)
Join(section, name) == section \o <<"/">> \o name

\* The class name of the child.
ChildName == <<"C">>

\* The sections of the ini files a parent and its child look at: DEFAULTS,
\* the parent's, the child's, and one named after the class alone.
NoIni == [defaults |-> NoOptions, parent |-> NoSection, child |-> NoSection,
          other |-> NoSection]

\* Config()[section]: what Config.copy exports for a section.
Export(section, defaults) ==
    [present |-> section.present,
     items |-> IF section.present
               THEN Items(NewConfigDict(section.options, defaults))
               ELSE NoItems]

\* Config(), for the section names a child asks for.
AllConfigs(sections, parent_section) ==
    [name \in {<<"DEFAULTS">>, parent_section, Join(parent_section, ChildName),
               ChildName} |->
        CASE name = <<"DEFAULTS">> -> Export(Section(sections.defaults), sections.defaults)
          [] name = parent_section -> Export(sections.parent, sections.defaults)
          [] name = ChildName -> Export(sections.other, sections.defaults)
          [] OTHER -> Export(sections.child, sections.defaults)]

\* val == def_val on the values a typed lookup gives: numbers and booleans
\* compare by value, strings by text, a string never equals a number.
PyEq(a, b) ==
    LET numeric == {"int", "bool", "float"}
        pow(n) == IF n = 0 THEN 1 ELSE IF n = 1 THEN 10 ELSE 100
    IN IF a.type \in numeric /\ b.type \in numeric
       THEN a.num * pow(b.scale) = b.num * pow(a.scale)
       ELSE a.type = b.type /\ a.text = b.text

\* SubSubtest.make_subsubtest_config
MakeSubsubtestConfig(all_configs, parent, subsubtest_config) ==
    [key \in OptionNames |->
        LET val == subsubtest_config[key]
            def_val == all_configs[<<"DEFAULTS">>].items[key]
            par_val == parent[key]
        IN IF val = Absent THEN parent[key]
           ELSE IF def_val # Absent
           THEN IF PyEq(val, def_val)
                THEN IF ~PyEq(par_val, def_val) THEN par_val ELSE def_val
                ELSE val
           ELSE val]

\* SubSubtest.__init__: the config of the child.
SubSubtestConfig(all_configs, parent_section, parent) ==
    LET section == Join(parent_section, ChildName)
    IN IF ~all_configs[section].present THEN parent
       ELSE MakeSubsubtestConfig(all_configs, parent, all_configs[section].items)

\* No parent and no child are configured.
\* Nothing of the subtest classes is running and no ConfigDict is looked at.
SubtestUnused ==
    /\ variant = "seq"
    /\ subsubtests = <<>>
    /\ iterations = 1
    /\ iteration = 0
    /\ pc = "enter"
    /\ idx = 0
    /\ todo = {}
    /\ subsubtest_names = <<>>
    /\ start_subsubtests = EmptyDict
    /\ run_subsubtests = EmptyDict
    /\ post_subsubtests = EmptyDict
    /\ final_subsubtests = {}
    /\ final_local = {}
    /\ cleanup_failures = {}
    /\ ninst = 0
    /\ cur = NoChild
    /\ cleanups = <<>>
    /\ sim_calls = <<>>
    /\ raised = NoExc
    /\ cleanup_raised = NoExc
    /\ post_result = NoResult
    /\ config_section = <<"a">>
    /\ disable = NoOption
    /\ entered = <<>>
    /\ cd_own = NoOptions
    /\ cd_defaults = NoOptions
    /\ lk_key = <<>>
    /\ lk_result = NoLookup

\* ---------------------------- output.TextTable, DockerContainersCLI: idle
\* None, as the value of a cell or of a call.
None == <<"None">>

\* No TextTable was made.
NoTable == [error |-> "none", columns |-> {}, rows |-> <<>>,
            allow_duplicate |-> FALSE]

NoCall == [op |-> "none", arg |-> <<>>, result |-> None]

\* The long ids of the containers the daemon may know.
LongIds == {"c1", "c2"}

\* The daemon knows no such container.
NoContainer == [state |-> "absent", pid |-> 0]

NoKill == [long_id |-> "", raised |-> "none", pid |-> 0]

TableUnused ==
    /\ table = NoTable
    /\ table_op = NoCall

KillUnused ==
    /\ containers = [id \in LongIds |-> NoContainer]
    /\ commands = <<>>
    /\ kill_result = NoKill

\* No 'subsubtests' option was split.
NamesUnused ==
    /\ option_text = <<>>
    /\ new_calls = <<>>

\* No config dictionary is in memory.
NoRefs == [cache |-> [defaults |-> 0, parent |-> 0, child |-> 0],
           parent |-> 0, children |-> <<>>, last |-> 0]

FrameUnused ==
    /\ dicts = <<>>
    /\ refs = NoRefs

\* No docker command was run.
NoCmdResult == [exit_status |-> 0, good |-> TRUE, stderr |-> <<>>]

\* No test, and no postprocess of it.
NoVerdict == [test |-> "none", expected |-> "", searched_info |-> <<>>,
              image |-> FALSE, outcome |-> "none"]

ResultUnused ==
    /\ cmdresult = NoCmdResult
    /\ verdict = NoVerdict

NoDockerCmd == [started |-> FALSE, done |-> FALSE, stdout |-> <<>>]

\* No run_once is waiting for a docker command.
NoPolling == [test |-> "none", pc |-> "none"]

PollingUnused ==
    /\ dkrcmd = NoDockerCmd
    /\ polling = NoPolling

RestUnused == NamesUnused /\ FrameUnused /\ ResultUnused /\ PollingUnused

ToolsUnused == TableUnused /\ KillUnused /\ RestUnused

InheritUnused ==
    /\ ini = NoIni
    /\ parent_config = NoItems
    /\ child_config = NoItems

\* No Config() call was made and no ini file is looked at.
ConfigUnused ==
    /\ files = NoFiles
    /\ singleton = FALSE
    /\ defaults_ = NotBuilt
    /\ configs_ = NotBuiltConfigs
    /\ heap = <<>>
    /\ copies = <<>>
    /\ reads = NoReads
    /\ built_from = NoFiles
    /\ InheritUnused

\* ------------------------------------------------------------------- Init
Init ==
    /\ variant \in {"seq", "sim"}
    /\ subsubtests \in SeqsUpTo(Classes, MaxNames)
    /\ iterations \in 1..MaxIterations
    /\ iteration = 0
    /\ hstage = "initialize"
    /\ pc = "enter"
    /\ idx = 0
    /\ todo = {}
    /\ subsubtest_names = <<>>
    /\ start_subsubtests = EmptyDict
    /\ run_subsubtests = EmptyDict
    /\ post_subsubtests = EmptyDict
    /\ final_subsubtests = {}
    /\ final_local = {}
    /\ cleanup_failures = {}
    /\ ninst = 0
    /\ cur = NoChild
    /\ cleanups = <<>>
    /\ sim_calls = <<>>
    /\ raised = NoExc
    /\ cleanup_raised = NoExc
    /\ post_result = NoResult
    /\ config_section = <<"a">>
    /\ disable = NoOption
    /\ entered = <<>>
    /\ cd_own = NoOptions
    /\ cd_defaults = NoOptions
    /\ lk_key = <<>>
    /\ lk_result = NoLookup
    /\ ConfigUnused
    /\ ToolsUnused

lookup_vars == <<cd_own, cd_defaults, lk_key, lk_result, cache_vars,
                 inherit_vars,
    table_vars, kill_vars, rest_vars>>

config_vars == <<variant, subsubtests, iterations, config_section, disable,
                 entered, lookup_vars>>

sim_only == <<todo, run_subsubtests, post_subsubtests, final_local,
              cleanup_failures, sim_calls>>

\* The harness: an exception leaving initialize, run_once or postprocess ends
\* the run; cleanup is still called.
HarnessRaise(exc) ==
    /\ raised' = exc
    /\ hstage' = "cleanup"
    /\ pc' = "enter"

\* ------------------------------------------- SubSubtestCaller.initialize
OrchInitialize ==
    /\ hstage = "initialize" /\ pc = "enter"
    /\ IF subsubtests = <<>>
       THEN /\ HarnessRaise(Report("DockerTestNAError", "initialize", {}))
            /\ UNCHANGED <<subsubtest_names, iteration, idx>>
       ELSE /\ subsubtest_names' = subsubtests
            /\ raised' = raised
            /\ idx' = 1
            /\ IF variant = "seq"
               THEN hstage' = "run_once" /\ pc' = "new" /\ iteration' = 1
               ELSE hstage' = "initialize" /\ pc' = "loop" /\ iteration' = iteration
    /\ UNCHANGED <<config_vars, sim_only, start_subsubtests, final_subsubtests,
                   ninst, cur, cleanups, cleanup_raised, post_result>>

\* ----------------------------------------------- SubSubtestCaller.run_once
\* One turn of the loop of run_once up to the first stage: new_subsubtest
\* returns an instance or None; run_all_stages records an instance in
\* start_subsubtests and only logs a warning for None.
SeqNewSubsubtest ==
    /\ variant = "seq" /\ hstage = "run_once" /\ pc = "new"
    /\ idx <= Len(subsubtest_names)
    /\ \E own \in OwnModule, external \in ExternalModule,
          enable \in BOOLEAN, disabled \in BOOLEAN :
        LET made == NewSubsubtest(Load(own, external), enable, disabled)
            new == made.out
        IN
        CASE new = "instance" ->
                /\ ninst' = ninst + 1
                /\ start_subsubtests' =
                       [start_subsubtests EXCEPT ![subsubtest_names[idx]] = ninst + 1]
                /\ cur' = [NoChild EXCEPT !.inst = ninst + 1,
                                          !.name = subsubtest_names[idx]]
                /\ cleanups' = Append(cleanups, 0)
                /\ pc' = "stages"
                /\ UNCHANGED <<idx, hstage, raised>>
          [] new = "none" ->
                /\ idx' = idx + 1
                /\ UNCHANGED <<ninst, start_subsubtests, cur, cleanups, pc, hstage,
                               raised>>
          [] OTHER ->
                /\ HarnessRaise(made.exc)
                /\ UNCHANGED <<ninst, start_subsubtests, cur, cleanups, idx>>
    /\ UNCHANGED <<config_vars, sim_only, iteration, subsubtest_names,
                   final_subsubtests, cleanup_raised, post_result>>

\* try_all_stages: one call_subsubtest_method of the next stage.
SeqCallStage ==
    /\ variant = "seq" /\ hstage = "run_once" /\ pc = "stages"
    /\ LET stage == SeqStages[Len(cur.calls) + 1]
           last == Len(cur.calls) + 1 = Len(SeqStages)
       IN \E out \in Outcomes :
            LET exc == IF out = "ok" THEN NoExc ELSE Exc(out, cur.inst, stage)
                over == exc # NoExc \/ last
                adds == AddsToFinal(exc, last)
            IN /\ final_subsubtests' = IF adds THEN final_subsubtests \cup {cur.name}
                                       ELSE final_subsubtests
               /\ cur' = [cur EXCEPT !.calls = Append(@, stage),
                                     !.stage_exc = exc,
                                     !.pending = IF exc # NoExc
                                                 THEN TryAllStagesCatch(exc)
                                                 ELSE NoExc,
                                     !.added = adds]
               /\ pc' = IF over THEN "child_cleanup" ELSE "stages"
    /\ UNCHANGED <<config_vars, sim_only, iteration, hstage, idx, subsubtest_names,
                   start_subsubtests, ninst, cleanups, raised, cleanup_raised,
                   post_result>>

\* run_all_stages: the finally block, then the loop of run_once goes on or
\* the exception leaves run_once.
SeqChildCleanup ==
    /\ variant = "seq" /\ hstage = "run_once" /\ pc = "child_cleanup"
    /\ \E out \in Outcomes :
        LET runs == FinallyRunsCleanup(cur.pending)
            cexc == IF runs /\ out # "ok" THEN Exc(out, cur.inst, "cleanup") ELSE NoExc
            leaving == IF runs
                       THEN RunAllStagesLeaving(cur.name, cur.inst, cur.pending, cexc)
                       ELSE cur.pending
        IN /\ ~runs => out = "ok"
           /\ cleanups' = IF runs THEN [cleanups EXCEPT ![cur.inst] = @ + 1]
                          ELSE cleanups
           /\ cur' = [cur EXCEPT !.calls = IF runs THEN Append(@, "cleanup") ELSE @,
                                 !.cleanup_exc = cexc]
           /\ IF leaving = NoExc
              THEN /\ idx' = idx + 1
                   /\ pc' = "new"
                   /\ UNCHANGED <<raised, hstage>>
              ELSE /\ HarnessRaise(leaving)
                   /\ idx' = idx
    /\ UNCHANGED <<config_vars, sim_only, iteration, subsubtest_names,
                   start_subsubtests, final_subsubtests, ninst,
                   cleanup_raised, post_result>>

\* run_once returned: the harness calls it again or goes on to postprocess.
SeqRunOnceReturn ==
    /\ variant = "seq" /\ hstage = "run_once" /\ pc = "new"
    /\ idx > Len(subsubtest_names)
    /\ IF iteration < iterations
       THEN /\ iteration' = iteration + 1
            /\ idx' = 1
            /\ UNCHANGED <<hstage, pc>>
       ELSE /\ hstage' = "postprocess"
            /\ pc' = "enter"
            /\ UNCHANGED <<iteration, idx>>
    /\ UNCHANGED <<config_vars, sim_only, subsubtest_names, start_subsubtests,
                   final_subsubtests, ninst, cur, cleanups, raised,
                   cleanup_raised, post_result>>

\* -------------------------------------------- SubSubtestCaller.postprocess
SeqPostprocess ==
    /\ variant = "seq" /\ hstage = "postprocess" /\ pc = "enter"
    /\ LET start == Keys(start_subsubtests)
       IN /\ post_result' = [done |-> TRUE, start |-> start, final |-> final_subsubtests]
          /\ raised' = IF SeqPostprocessRaises(start, final_subsubtests)
                       THEN Report("DockerTestFail", "postprocess",
                                   FailedTests(start, final_subsubtests))
                       ELSE NoExc
    /\ hstage' = "cleanup"
    /\ pc' = "enter"
    /\ UNCHANGED <<config_vars, sim_only, iteration, idx, subsubtest_names,
                   start_subsubtests, final_subsubtests, ninst, cur,
                   cleanups, cleanup_raised>>

\* ------------------------------------------------ SubSubtestCaller.cleanup
SeqCleanup ==
    /\ variant = "seq" /\ hstage = "cleanup" /\ pc = "enter"
    /\ hstage' = "done"
    /\ UNCHANGED <<config_vars, sim_only, iteration, pc, idx, subsubtest_names,
                   start_subsubtests, final_subsubtests, ninst, cur,
                   cleanups, raised, cleanup_raised, post_result>>

\* ---------------------------------- SubSubtestCallerSimultaneous.initialize
\* One turn of the loop: new_subsubtest, then the child's initialize.
SimInitializeChild ==
    /\ variant = "sim" /\ hstage = "initialize" /\ pc = "loop"
    /\ idx <= Len(subsubtest_names)
    /\ \E own \in OwnModule, external \in ExternalModule,
          enable \in BOOLEAN, disabled \in BOOLEAN, out \in Outcomes :
        LET made == NewSubsubtest(Load(own, external), enable, disabled)
            new == made.out
        IN
        CASE new = "instance" ->
                LET name == subsubtest_names[idx]
                    inst == ninst + 1
                    exc == IF out = "ok" THEN NoExc ELSE Exc(out, inst, "initialize")
                    leaving == SimInitializeCatch(exc)
                IN /\ ninst' = inst
                   /\ start_subsubtests' = [start_subsubtests EXCEPT ![name] = inst]
                   /\ cleanups' = Append(cleanups, 0)
                   /\ sim_calls' = Append(sim_calls,
                           [NoCalls EXCEPT !.name = name, !.initialize = 1,
                                           !.failed = IF exc # NoExc
                                                      THEN {"initialize"} ELSE {},
                                           !.unexpected = exc # NoExc
                                               /\ exc.kind \notin AutotestErrors,
                                           !.na = exc.kind = "DockerTestNAError"])
                   /\ run_subsubtests' = IF SimInitializeAdmits(exc)
                                         THEN [run_subsubtests EXCEPT ![name] = inst]
                                         ELSE run_subsubtests
                   /\ IF leaving = NoExc
                      THEN idx' = idx + 1 /\ UNCHANGED <<raised, hstage, pc>>
                      ELSE HarnessRaise(leaving) /\ idx' = idx
          [] new = "none" ->
                /\ out = "ok"
                /\ idx' = idx + 1
                /\ UNCHANGED <<ninst, start_subsubtests, run_subsubtests, cleanups,
                               sim_calls, raised, hstage, pc>>
          [] OTHER ->
                /\ out = "ok"
                /\ HarnessRaise(made.exc)
                /\ UNCHANGED <<ninst, start_subsubtests, run_subsubtests, cleanups,
                               sim_calls, idx>>
    /\ UNCHANGED <<config_vars, iteration, todo, subsubtest_names, post_subsubtests,
                   final_subsubtests, final_local, cleanup_failures, cur,
                   cleanup_raised, post_result>>

\* initialize returned: the harness goes on to the first run_once.
SimInitializeReturn ==
    /\ variant = "sim" /\ hstage = "initialize" /\ pc = "loop"
    /\ idx > Len(subsubtest_names)
    /\ hstage' = "run_once"
    /\ pc' = "enter"
    /\ iteration' = 1
    /\ UNCHANGED <<config_vars, sim_only, idx, subsubtest_names, start_subsubtests,
                   final_subsubtests, ninst, cur, cleanups, raised, cleanup_raised,
                   post_result>>

\* ------------------------------------ SubSubtestCallerSimultaneous.run_once
\* The loop runs over the list run_subsubtests.items() built at its start.
SimRunOnceEnter ==
    /\ variant = "sim" /\ hstage = "run_once" /\ pc = "enter"
    /\ todo' = SimRunOnceItems(start_subsubtests, run_subsubtests)
    /\ pc' = "loop"
    /\ UNCHANGED <<config_vars, iteration, hstage, idx, subsubtest_names,
                   start_subsubtests, run_subsubtests, post_subsubtests,
                   final_subsubtests, final_local, cleanup_failures, ninst, cur,
                   cleanups, sim_calls, raised, cleanup_raised, post_result>>

\* One turn of the loop; a dictionary's items come in no particular order.
SimRunOnceChild ==
    /\ variant = "sim" /\ hstage = "run_once" /\ pc = "loop"
    /\ \E name \in todo, out \in Outcomes :
        LET inst == IF run_subsubtests[name] # 0 THEN run_subsubtests[name]
                    ELSE start_subsubtests[name]
            exc == IF out = "ok" THEN NoExc ELSE Exc(out, inst, "run_once")
            leaving == SimRunOnceCatch(exc)
        IN /\ sim_calls' = [sim_calls EXCEPT
                    ![inst].run_once = @ + 1,
                    ![inst].failed = IF exc # NoExc THEN @ \cup {"run_once"} ELSE @,
                    ![inst].unexpected = @ \/ (exc # NoExc
                                               /\ exc.kind \notin AutotestErrors),
                    ![inst].na = @ \/ exc.kind = "DockerTestNAError"]
           /\ post_subsubtests' = IF SimRunOnceAdmits(exc)
                                  THEN [post_subsubtests EXCEPT ![name] = inst]
                                  ELSE post_subsubtests
           /\ todo' = todo \ {name}
           /\ IF leaving = NoExc
              THEN UNCHANGED <<raised, hstage, pc>>
              ELSE HarnessRaise(leaving)
    /\ UNCHANGED <<config_vars, iteration, idx, subsubtest_names, start_subsubtests,
                   run_subsubtests, final_subsubtests, final_local, cleanup_failures,
                   ninst, cur, cleanups, cleanup_raised, post_result>>

\* run_once returned: the harness calls it again or goes on to postprocess.
SimRunOnceReturn ==
    /\ variant = "sim" /\ hstage = "run_once" /\ pc = "loop"
    /\ todo = {}
    /\ pc' = "enter"
    /\ IF iteration < iterations
       THEN iteration' = iteration + 1 /\ hstage' = hstage
       ELSE iteration' = iteration /\ hstage' = "postprocess"
    /\ UNCHANGED <<config_vars, sim_only, idx, subsubtest_names, start_subsubtests,
                   final_subsubtests, ninst, cur, cleanups, raised, cleanup_raised,
                   post_result>>

\* --------------------------------- SubSubtestCallerSimultaneous.postprocess
SimPostprocessEnter ==
    /\ variant = "sim" /\ hstage = "postprocess" /\ pc = "enter"
    /\ todo' = SimPostprocessItems(run_subsubtests, post_subsubtests)
    /\ final_local' = {}
    /\ pc' = "loop"
    /\ UNCHANGED <<config_vars, iteration, hstage, idx, subsubtest_names,
                   start_subsubtests, run_subsubtests, post_subsubtests,
                   final_subsubtests, cleanup_failures, ninst, cur, cleanups,
                   sim_calls, raised, cleanup_raised, post_result>>

SimPostprocessChild ==
    /\ variant = "sim" /\ hstage = "postprocess" /\ pc = "loop"
    /\ \E name \in todo, out \in Outcomes :
        LET inst == IF post_subsubtests[name] # 0 THEN post_subsubtests[name]
                    ELSE run_subsubtests[name]
            exc == IF out = "ok" THEN NoExc ELSE Exc(out, inst, "postprocess")
            leaving == SimPostprocessCatch(exc)
        IN /\ sim_calls' = [sim_calls EXCEPT
                    ![inst].postprocess = @ + 1,
                    ![inst].failed = IF exc # NoExc THEN @ \cup {"postprocess"} ELSE @,
                    ![inst].unexpected = @ \/ (exc # NoExc
                                               /\ exc.kind \notin AutotestErrors),
                    ![inst].na = @ \/ exc.kind = "DockerTestNAError"]
           /\ final_local' = IF exc = NoExc THEN final_local \cup {name}
                             ELSE final_local
           /\ todo' = todo \ {name}
           /\ IF leaving = NoExc
              THEN UNCHANGED <<raised, hstage, pc>>
              ELSE HarnessRaise(leaving)
    /\ UNCHANGED <<config_vars, iteration, idx, subsubtest_names, start_subsubtests,
                   run_subsubtests, post_subsubtests, final_subsubtests,
                   cleanup_failures, ninst, cur, cleanups, cleanup_raised, post_result>>

\* After the loop: the comparison of the passed set with the started set.
SimPostprocessCompare ==
    /\ variant = "sim" /\ hstage = "postprocess" /\ pc = "loop"
    /\ todo = {}
    /\ LET start == Keys(start_subsubtests)
       IN /\ post_result' = [done |-> TRUE, start |-> start, final |-> final_local]
          /\ raised' = IF SimPostprocessRaises(start, final_local)
                       THEN Report("DockerTestFail", "postprocess",
                                   FailedTests(start, final_local))
                       ELSE NoExc
    /\ hstage' = "cleanup"
    /\ pc' = "enter"
    /\ UNCHANGED <<config_vars, sim_only, iteration, idx, subsubtest_names,
                   start_subsubtests, final_subsubtests, ninst, cur, cleanups,
                   cleanup_raised>>

\* ------------------------------------- SubSubtestCallerSimultaneous.cleanup
SimCleanupEnter ==
    /\ variant = "sim" /\ hstage = "cleanup" /\ pc = "enter"
    /\ todo' = SimCleanupItems(start_subsubtests, run_subsubtests)
    /\ cleanup_failures' = {}
    /\ pc' = "loop"
    /\ UNCHANGED <<config_vars, iteration, hstage, idx, subsubtest_names,
                   start_subsubtests, run_subsubtests, post_subsubtests,
                   final_subsubtests, final_local, ninst, cur, cleanups, sim_calls,
                   raised, cleanup_raised, post_result>>

SimCleanupChild ==
    /\ variant = "sim" /\ hstage = "cleanup" /\ pc = "loop"
    /\ \E name \in todo, out \in Outcomes :
        LET inst == start_subsubtests[name]
            exc == IF out = "ok" THEN NoExc ELSE Exc(out, inst, "cleanup")
            leaving == SimCleanupCatch(exc)
        IN /\ cleanups' = [cleanups EXCEPT ![inst] = @ + 1]
           /\ cleanup_failures' = IF exc # NoExc /\ leaving = NoExc
                                  THEN cleanup_failures \cup {name}
                                  ELSE cleanup_failures
           /\ todo' = todo \ {name}
           /\ IF leaving = NoExc
              THEN UNCHANGED <<cleanup_raised, hstage>>
              ELSE cleanup_raised' = leaving /\ hstage' = "done"
    /\ UNCHANGED <<config_vars, iteration, pc, idx, subsubtest_names,
                   start_subsubtests, run_subsubtests, post_subsubtests,
                   final_subsubtests, final_local, ninst, cur, sim_calls, raised,
                   post_result>>

SimCleanupReturn ==
    /\ variant = "sim" /\ hstage = "cleanup" /\ pc = "loop"
    /\ todo = {}
    /\ cleanup_raised' = IF SimCleanupRaises(cleanup_failures)
                         THEN Report("DockerTestError", "cleanup", cleanup_failures)
                         ELSE NoExc
    /\ hstage' = "done"
    /\ UNCHANGED <<config_vars, sim_only, iteration, pc, idx, subsubtest_names,
                   start_subsubtests, final_subsubtests, ninst, cur, cleanups, raised,
                   post_result>>

Next ==
    \/ OrchInitialize
    \/ SeqNewSubsubtest
    \/ SeqCallStage
    \/ SeqChildCleanup
    \/ SeqRunOnceReturn
    \/ SeqPostprocess
    \/ SeqCleanup
    \/ SimInitializeChild
    \/ SimInitializeReturn
    \/ SimRunOnceEnter
    \/ SimRunOnceChild
    \/ SimRunOnceReturn
    \/ SimPostprocessEnter
    \/ SimPostprocessChild
    \/ SimPostprocessCompare
    \/ SimCleanupEnter
    \/ SimCleanupChild
    \/ SimCleanupReturn

Spec == Init /\ [][Next]_vars

\* ================================================ a ConfigDict in use
InitLookup ==
    /\ variant = "seq"
    /\ subsubtests = <<>>
    /\ iterations = 1
    /\ iteration = 0
    /\ hstage = "config"
    /\ pc = "enter"
    /\ idx = 0
    /\ todo = {}
    /\ subsubtest_names = <<>>
    /\ start_subsubtests = EmptyDict
    /\ run_subsubtests = EmptyDict
    /\ post_subsubtests = EmptyDict
    /\ final_subsubtests = {}
    /\ final_local = {}
    /\ cleanup_failures = {}
    /\ ninst = 0
    /\ cur = NoChild
    /\ cleanups = <<>>
    /\ sim_calls = <<>>
    /\ raised = NoExc
    /\ cleanup_raised = NoExc
    /\ post_result = NoResult
    /\ config_section = <<"a">>
    /\ disable = NoOption
    /\ entered = <<>>
    /\ cd_own \in {f \in [OptionNames -> StoredValues \cup {NoOption}] :
                       f[<<"j">>] \in {NoOption, <<"n", "o">>}}
    /\ cd_defaults \in [OptionNames -> {NoOption, <<"4", "2">>}]
    /\ lk_key = <<>>
    /\ lk_result = NoLookup
    /\ ConfigUnused
    /\ ToolsUnused

not_lookup_vars == <<variant, subsubtests, iterations, iteration, hstage, pc,
                     idx, todo, subsubtest_names, start_subsubtests,
                     run_subsubtests, post_subsubtests, final_subsubtests,
                     final_local, cleanup_failures, ninst, cur, cleanups,
                     sim_calls, raised, cleanup_raised, post_result,
                     config_section, disable, entered, cache_vars,
                     inherit_vars,
    table_vars, kill_vars, rest_vars>>

\* value = mapping[key]
ConfigDictGetItem ==
    /\ hstage = "config"
    /\ \E key \in LookupKeys :
        /\ lk_key' = key
        /\ lk_result' = GetItem(cd_own, cd_defaults, key)
    /\ UNCHANGED <<cd_own, cd_defaults, not_lookup_vars>>

\* mapping[key] = value: ConfigSection.set stores str(value) under the
\* lower-cased option name.
ConfigDictSetItem ==
    /\ hstage = "config"
    /\ \E key \in LookupKeys, value \in SetValues :
        /\ Lower(key) \in OptionNames
        /\ cd_own' = [cd_own EXCEPT ![Lower(key)] = value]
    /\ lk_key' = <<>>
    /\ lk_result' = NoLookup
    /\ UNCHANGED <<cd_defaults, not_lookup_vars>>

\* del mapping[key]: ConfigSection.remove_option removes the section's own
\* option, if any.
ConfigDictDelItem ==
    /\ hstage = "config"
    /\ \E key \in LookupKeys :
        /\ Lower(key) \in OptionNames
        /\ cd_own' = [cd_own EXCEPT ![Lower(key)] = NoOption]
    /\ lk_key' = <<>>
    /\ lk_result' = NoLookup
    /\ UNCHANGED <<cd_defaults, not_lookup_vars>>

NextLookup ==
    \/ ConfigDictGetItem
    \/ ConfigDictSetItem
    \/ ConfigDictDelItem

SpecLookup == InitLookup /\ [][NextLookup]_vars

\* ============================================= a Subtest run by the harness
\* One Subtest: its constructor, then the stage methods as the harness
\* calls them. Every stage method returns or raises.
LifecycleStages == {"initialize", "run_once", "postprocess_iteration",
                    "postprocess", "cleanup"}

\* Values of the 'disable' option that are no lists of section names.
DisableWords == {<<"n", "o">>, <<"0">>}

\* self.config.get('disable', ''): the config is the plain dictionary made by
\* Config.copy, whose values went through the typed lookup.
ConfigGetDisable(option) ==
    IF option = NoOption THEN Typed("str", 0, 0, <<>>) ELSE TypedLookup(option)

\* check_disable: "DockerTestNAError" when the section is listed, "ok" when
\* not; disable.split raises AttributeError when the value is no string.
CheckDisable(section, option) ==
    LET value == ConfigGetDisable(option)
    IN IF value.type # "str" THEN "Exception"
       ELSE IF section \in Range(Split(value.text, ",")) THEN "DockerTestNAError"
       ELSE "ok"

HarnessNextNoCleanupAfterRaise(stage, raises, it, its) ==
    IF stage = "cleanup" \/ raises THEN "done"
    ELSE CASE stage = "initialize" -> "run_once"
           [] stage = "run_once" -> "postprocess_iteration"
           [] stage = "postprocess_iteration" ->
                 IF it < its THEN "run_once" ELSE "postprocess"
           [] OTHER -> "cleanup"

\* The harness: the stage entered after this one returned or raised, in
\* iteration it of its.
HarnessNext(stage, raises, it, its) ==
    IF stage = "cleanup" THEN "done"
    ELSE IF raises THEN "cleanup"
    ELSE CASE stage = "initialize" -> "run_once"
           [] stage = "run_once" -> "postprocess_iteration"
           [] stage = "postprocess_iteration" ->
                 IF it < its THEN "run_once" ELSE "postprocess"
           [] OTHER -> "cleanup"

InitSubtest ==
    /\ variant = "seq"
    /\ subsubtests = <<>>
    /\ iterations \in 1..MaxIterations
    /\ iteration = 0
    /\ hstage = "construct"
    /\ pc = "enter"
    /\ idx = 0
    /\ todo = {}
    /\ subsubtest_names = <<>>
    /\ start_subsubtests = EmptyDict
    /\ run_subsubtests = EmptyDict
    /\ post_subsubtests = EmptyDict
    /\ final_subsubtests = {}
    /\ final_local = {}
    /\ cleanup_failures = {}
    /\ ninst = 0
    /\ cur = NoChild
    /\ cleanups = <<>>
    /\ sim_calls = <<>>
    /\ raised = NoExc
    /\ cleanup_raised = NoExc
    /\ post_result = NoResult
    /\ config_section \in SeqsUpTo(SectionChars, MaxSectionLen) \ {<<>>}
    /\ disable \in SeqsUpTo(OptionChars, MaxDisableLen) \cup DisableWords
                       \cup {NoOption}
    /\ entered = <<>>
    /\ cd_own = NoOptions
    /\ cd_defaults = NoOptions
    /\ lk_key = <<>>
    /\ lk_result = NoLookup
    /\ ConfigUnused
    /\ ToolsUnused

orchestrator_vars == <<variant, subsubtests, pc, idx, todo, subsubtest_names,
                       start_subsubtests, run_subsubtests, post_subsubtests,
                       final_subsubtests, final_local, cleanup_failures, ninst,
                       cur, cleanups, sim_calls, post_result>>

\* Subtest.__init__: check_disable(config_section) after the config is set.
SubtestConstruct ==
    /\ hstage = "construct"
    /\ LET checked == CheckDisable(config_section, disable)
       IN IF checked # "ok"
          THEN /\ raised' = Exc(checked, 0, "__init__")
               /\ hstage' = "not_constructed"
          ELSE /\ raised' = raised
               /\ hstage' = "initialize"
    /\ UNCHANGED <<orchestrator_vars, iterations, iteration, cleanup_raised,
                   config_section, disable, entered, lookup_vars>>

\* The harness calls one stage method, which returns or raises.
SubtestStage(stage) ==
    /\ hstage = stage
    /\ \E out \in Outcomes :
        LET raises == out # "ok"
            next == HarnessNext(stage, raises, iteration, iterations)
        IN /\ entered' = Append(entered, stage)
           /\ raised' = IF raises /\ stage # "cleanup"
                        THEN Exc(out, 0, stage) ELSE raised
           /\ cleanup_raised' = IF raises /\ stage = "cleanup"
                                THEN Exc(out, 0, stage) ELSE cleanup_raised
           /\ hstage' = next
           /\ iteration' = IF next = "run_once" THEN iteration + 1 ELSE iteration
    /\ UNCHANGED <<orchestrator_vars, iterations, config_section, disable,
                   lookup_vars>>

SubtestInitialize == SubtestStage("initialize")

SubtestRunOnce == SubtestStage("run_once")

SubtestPostprocessIteration == SubtestStage("postprocess_iteration")

SubtestPostprocess == SubtestStage("postprocess")

SubtestCleanup == SubtestStage("cleanup")

NextSubtest ==
    \/ SubtestConstruct
    \/ SubtestInitialize
    \/ SubtestRunOnce
    \/ SubtestPostprocessIteration
    \/ SubtestPostprocess
    \/ SubtestCleanup

SpecSubtest == InitSubtest /\ [][NextSubtest]_vars

\* ================================================ Config() and its caches
\* The ini files the directories hold when the process starts.
DefaultsIni(options) ==
    File(DefaultsFile, [NoContent EXCEPT !["DEFAULTS"] = Section(options)])

\* a.ini declares S without options and T, or S with two options.
FilesA ==
    {File("a.ini", [NoContent EXCEPT
                        !["S"] = Section(NoOptions),
                        !["T"] = Section([NoOptions EXCEPT
                                             ![<<"j">>] = <<"3", ".", "5">>])]),
     File("a.ini", [NoContent EXCEPT
                        !["S"] = Section([k \in OptionNames |->
                                    IF k = <<"k">> THEN <<"0">> ELSE <<"7">>])])}

\* b.ini declares S again, with one option.
FileB ==
    File("b.ini", [NoContent EXCEPT
                       !["S"] = Section([NoOptions EXCEPT
                                            ![<<"k">>] = <<"y", "e", "s">>])])

\* A file load_config_dir skips.
Readme ==
    File("README", [NoContent EXCEPT
                        !["S"] = Section([NoOptions EXCEPT ![<<"k">>] = <<"7">>])])

DefaultTierFiles ==
    {defaults \o <<a>> \o b \o <<Readme>> :
        defaults \in {<<>>, <<DefaultsIni([NoOptions EXCEPT
                                              ![<<"k">>] = <<"4", "2">>])>>},
        a \in FilesA, b \in {<<>>, <<FileB>>}}

CustomTierFiles ==
    {defaults \o b :
        defaults \in {<<>>, <<DefaultsIni([NoOptions EXCEPT
                                              ![<<"j">>] = <<"n", "o">>])>>},
        b \in {<<>>, <<FileB>>}}

InitialFiles ==
    {fs \in [Range(ConfigDirs) -> DefaultTierFiles \cup CustomTierFiles] :
        /\ fs["config_defaults"] \in DefaultTierFiles
        /\ fs["config_custom"] \in CustomTierFiles
        /\ ~(FileB \in Range(fs["config_defaults"])
               /\ FileB \in Range(fs["config_custom"]))
        /\ FileB \in Range(fs["config_defaults"]) \cup Range(fs["config_custom"])
               => \E a \in Range(fs["config_defaults"]) :
                      a.name = "a.ini" /\ ~a.sections["T"].present}

\* An edit of the ini files while the process runs: config_custom gets a
\* new defaults.ini and a file that declares S.
EditedFiles(fs) ==
    [fs EXCEPT !["config_custom"] =
        <<DefaultsIni([NoOptions EXCEPT ![<<"j">>] = <<"7">>]),
          File("a.ini", [NoContent EXCEPT
                             !["S"] = Section([NoOptions EXCEPT
                                                  ![<<"k">>] = <<"7">>])])>>]

\* The sections of its copy a caller changes, and the keys in them.
MutatedSections == {"S", "U"}

MutatedKeys == {<<"k">>}

InitConfig ==
    /\ variant = "seq"
    /\ subsubtests = <<>>
    /\ iterations = 1
    /\ iteration = 0
    /\ hstage = "cache"
    /\ pc = "enter"
    /\ idx = 0
    /\ todo = {}
    /\ subsubtest_names = <<>>
    /\ start_subsubtests = EmptyDict
    /\ run_subsubtests = EmptyDict
    /\ post_subsubtests = EmptyDict
    /\ final_subsubtests = {}
    /\ final_local = {}
    /\ cleanup_failures = {}
    /\ ninst = 0
    /\ cur = NoChild
    /\ cleanups = <<>>
    /\ sim_calls = <<>>
    /\ raised = NoExc
    /\ cleanup_raised = NoExc
    /\ post_result = NoResult
    /\ config_section = <<"a">>
    /\ disable = NoOption
    /\ entered = <<>>
    /\ cd_own = NoOptions
    /\ cd_defaults = NoOptions
    /\ lk_key = <<>>
    /\ lk_result = NoLookup
    /\ files \in InitialFiles
    /\ singleton = FALSE
    /\ defaults_ = NotBuilt
    /\ configs_ = NotBuiltConfigs
    /\ heap = <<>>
    /\ copies = <<>>
    /\ reads = NoReads
    /\ built_from = NoFiles
    /\ InheritUnused
    /\ ToolsUnused

not_cache_vars == <<variant, subsubtests, iterations, iteration, hstage, pc,
                    idx, todo, subsubtest_names, start_subsubtests,
                    run_subsubtests, post_subsubtests, final_subsubtests,
                    final_local, cleanup_failures, ninst, cur, cleanups,
                    sim_calls, raised, cleanup_raised, post_result,
                    config_section, disable, entered, cd_own, cd_defaults,
                    lk_key, lk_result, inherit_vars,
    table_vars, kill_vars, rest_vars>>

\* Changes made to the copies so far.
RECURSIVE Mutations(_)
Mutations(cs) ==
    IF cs = <<>> THEN 0 ELSE Head(cs).mutations + Mutations(Tail(cs))

\* Config(): __new__ sets the singleton and returns its copy(); copy() reads
\* the configs property, which on its first use walks the two directories
\* and, per directory, reads the defaults property.
ConfigNew ==
    /\ hstage = "cache"
    /\ Len(copies) < MaxCopies
    /\ singleton' = TRUE
    /\ LET build == NeedsBuild(configs_)
           read == build /\ NeedsBuild(defaults_)
           found == ReadDefaults(files)
           fails == read /\ ~found.present
           defaults1 == IF read /\ found.present
                        THEN Built(found.options) ELSE defaults_
           walked == WalkConfigs(files, defaults1.options)
           base == Len(heap)
           heap1 == IF build /\ ~fails
                    THEN heap \o [i \in 1..Len(SectionOrder) |->
                                     walked[SectionOrder[i]].object]
                    ELSE heap
           configs1 ==
               IF ~build THEN configs_
               ELSE [built |-> TRUE,
                     sections |->
                         [sec \in Sections |->
                             IF ~fails /\ walked[sec].present
                             THEN base + Slot(sec) ELSE NoAddress]]
           base1 == Len(heap1)
           cached(sec) == configs1.sections[sec]
           heap2 == IF fails THEN heap1
                    ELSE heap1 \o [i \in 1..Len(SectionOrder) |->
                                      IF cached(SectionOrder[i]) = NoAddress
                                      THEN Free
                                      ELSE NewDict(Items(heap1[cached(SectionOrder[i])]))]
           the_copy == [sec \in CopySections |->
                           IF sec \notin Sections \/ fails THEN NoAddress
                           ELSE IF cached(sec) = NoAddress THEN NoAddress
                           ELSE CopyRef(cached(sec), base1 + Slot(sec))]
           built1 == IF build THEN files ELSE built_from
       IN /\ defaults_' = defaults1
          /\ configs_' = configs1
          /\ heap' = heap2
          /\ built_from' = built1
          /\ reads' = [defaults |-> reads.defaults + (IF read THEN 1 ELSE 0),
                       configs |-> reads.configs + (IF build THEN 1 ELSE 0)]
          /\ copies' = Append(copies, [raised |-> fails,
                                       sections |-> the_copy,
                                       after |-> Mutations(copies),
                                       stale |-> files # built1,
                                       mutations |-> 0])
    /\ UNCHANGED <<files, not_cache_vars>>

\* A caller changes the copy it got.
Mutate(c, sections, memory) ==
    /\ hstage = "cache"
    /\ ~copies[c].raised
    /\ Mutations(copies) < MaxMutations
    /\ copies' = [copies EXCEPT ![c].sections = sections,
                                ![c].mutations = @ + 1]
    /\ heap' = memory
    /\ UNCHANGED <<files, singleton, defaults_, configs_, reads, built_from,
                   not_cache_vars>>

\* copy[section][key] = value
CopySetItem ==
    \E c \in 1..Len(copies), sec \in MutatedSections, key \in MutatedKeys,
       value \in MutationValues :
        LET at == copies[c].sections[sec]
        IN /\ at # NoAddress
           /\ Mutate(c, copies[c].sections,
                     [heap EXCEPT ![at] = SetItem(@, key, value)])

\* del copy[section][key]
CopyDelItem ==
    \E c \in 1..Len(copies), sec \in MutatedSections, key \in MutatedKeys :
        LET at == copies[c].sections[sec]
        IN /\ at # NoAddress
           /\ Items(heap[at])[key] # Absent
           /\ Mutate(c, copies[c].sections,
                     [heap EXCEPT ![at] = DelItem(@, key)])

\* copy[section] = {}
CopyAddSection ==
    \E c \in 1..Len(copies), sec \in MutatedSections :
        Mutate(c, [copies[c].sections EXCEPT ![sec] = Len(heap) + 1],
               Append(heap, NewDict(NoItems)))

\* del copy[section]
CopyDelSection ==
    \E c \in 1..Len(copies), sec \in MutatedSections :
        /\ copies[c].sections[sec] # NoAddress
        /\ Mutate(c, [copies[c].sections EXCEPT ![sec] = NoAddress], heap)

\* Somebody edits the ini files after the caches were built.
FilesChange ==
    /\ hstage = "cache"
    /\ configs_.built
    /\ files = built_from
    /\ files' = EditedFiles(files)
    /\ UNCHANGED <<singleton, defaults_, configs_, heap, copies, reads,
                   built_from, not_cache_vars>>

NextConfig ==
    \/ ConfigNew
    \/ CopySetItem
    \/ CopyDelItem
    \/ CopyAddSection
    \/ CopyDelSection
    \/ FilesChange

SpecConfig == InitConfig /\ [][NextConfig]_vars

\* ============================================== a child inherits its config
\* The sections the ini files may give the parent and the child.
IniChoices ==
    {s \in [defaults : [OptionNames -> {NoOption, <<"4", "2">>}],
            parent : {NoSection} \cup
                     {Section(o) : o \in [OptionNames ->
                                     {NoOption, <<"4", "2">>, <<"7">>}]},
            child : {NoSection} \cup
                    {Section(o) : o \in [OptionNames ->
                                    {NoOption, <<"4", "2">>, <<"7">>, <<"n", "o">>}]},
            other : {NoSection,
                     Section([NoOptions EXCEPT ![<<"k">>] = <<"3", ".", "5">>])}] :
        /\ s.defaults[<<"j">>] = NoOption
        /\ s.parent.options[<<"j">>] \in {NoOption, <<"7">>}
        /\ s.child.options[<<"j">>] \in {NoOption, <<"n", "o">>}
        /\ s.child.options[<<"k">>] # <<"n", "o">>}

\* Subtest.__init__, _init_config: the section of the subtest, or DEFAULTS
\* when the ini files do not have it.
InitConfigOf(all_configs, section) ==
    IF all_configs[section].present
    THEN all_configs[section].items
    ELSE all_configs[<<"DEFAULTS">>].items

InitInherit ==
    /\ variant = "seq"
    /\ subsubtests = <<>>
    /\ iterations = 1
    /\ iteration = 0
    /\ hstage = "parent"
    /\ pc = "enter"
    /\ idx = 0
    /\ todo = {}
    /\ subsubtest_names = <<>>
    /\ start_subsubtests = EmptyDict
    /\ run_subsubtests = EmptyDict
    /\ post_subsubtests = EmptyDict
    /\ final_subsubtests = {}
    /\ final_local = {}
    /\ cleanup_failures = {}
    /\ ninst = 0
    /\ cur = NoChild
    /\ cleanups = <<>>
    /\ sim_calls = <<>>
    /\ raised = NoExc
    /\ cleanup_raised = NoExc
    /\ post_result = NoResult
    /\ config_section \in {<<"a">>, <<"b">>}
    /\ disable = NoOption
    /\ entered = <<>>
    /\ cd_own = NoOptions
    /\ cd_defaults = NoOptions
    /\ lk_key = <<>>
    /\ lk_result = NoLookup
    /\ files = NoFiles
    /\ singleton = FALSE
    /\ defaults_ = NotBuilt
    /\ configs_ = NotBuiltConfigs
    /\ heap = <<>>
    /\ copies = <<>>
    /\ reads = NoReads
    /\ built_from = NoFiles
    /\ ini \in IniChoices
    /\ parent_config = InitConfigOf(AllConfigs(ini, config_section), config_section)
    /\ child_config = NoItems
    /\ ToolsUnused

not_inherit_vars == <<variant, subsubtests, iterations, iteration, pc,
                      idx, todo, subsubtest_names, start_subsubtests,
                      run_subsubtests, post_subsubtests, final_subsubtests,
                      final_local, cleanup_failures, ninst, cur, cleanups,
                      sim_calls, raised, cleanup_raised, post_result,
                      config_section, disable, entered, cd_own, cd_defaults,
                      lk_key, lk_result, cache_vars, table_vars, kill_vars, rest_vars>>

\* The parent changes an option of its own config before it makes the child.
ParentSetItem ==
    /\ hstage = "parent"
    /\ \E key \in OptionNames :
        /\ parent_config[key] # Typed("str", 0, 0, <<"h", "i">>)
        /\ parent_config' = [parent_config EXCEPT
                                 ![key] = Typed("str", 0, 0, <<"h", "i">>)]
    /\ UNCHANGED <<hstage, ini, child_config, not_inherit_vars>>

\* SubSubtest.__init__ up to the 'enable' test: the child's config_section
\* and config.
SubSubtestInitConfig ==
    /\ hstage = "parent"
    /\ hstage' = "child"
    /\ child_config' = SubSubtestConfig(AllConfigs(ini, config_section),
                                        config_section, parent_config)
    /\ UNCHANGED <<ini, parent_config, not_inherit_vars>>

NextInherit ==
    \/ ParentSetItem
    \/ SubSubtestInitConfig

SpecInherit == InitInherit /\ [][NextInherit]_vars

\* =============================== output.ColumnRanges and output.TextTable
\* chr(0): a control character, which str.strip() leaves alone.
Nul == "NUL"

ControlChars == {Nul}

\* ColumnRanges: the end of the last column, which has none.
NoEnd == -1

\* str.splitlines()
RECURSIVE SplitLines(_)
SplitLines(text) ==
    LET breaks == {i \in 1..Len(text) : text[i] = "\n"}
    IN IF text = <<>> THEN <<>>
       ELSE IF breaks = {} THEN <<text>>
       ELSE LET first == CHOOSE i \in breaks : \A j \in breaks : i <= j
            IN <<SubSeq(text, 1, first - 1)>>
                   \o SplitLines(SubSeq(text, first + 1, Len(text)))

\* line[start:end], with offsets counted from 0 and end None for the rest
\* of the line.
Slice(line, start, end) ==
    SubSeq(line, start + 1,
           IF end = NoEnd \/ end > Len(line) THEN Len(line) ELSE end)

HeaderIsBlankWhitespaceOnly(header) ==
    \A i \in 1..Len(header) : header[i] \in Whitespace

\* ColumnRanges.__init__: no column can be found in a header that is empty
\* or has only whitespace and control characters.
HeaderIsBlank(header) ==
    \A i \in 1..Len(header) : header[i] \in Whitespace \cup ControlChars

\* The places (from 1) where a column name starts: at the start of the
\* header, or after two or more characters of whitespace ('CONTAINER ID'
\* is one name).
ColumnStarts(header) ==
    {i \in 1..Len(header) :
        /\ header[i] \notin Whitespace
        /\ \/ i = 1
           \/ /\ header[i - 1] \in Whitespace
              /\ i = 2 \/ header[i - 2] \in Whitespace}

\* ColumnRanges: a column goes from the start of its name to the start of
\* the next name, the last one to the end of the line.
Columns(header) ==
    LET starts == ColumnStarts(header)
        Column(i) ==
            LET later == {j \in starts : j > i}
                next == IF later = {} THEN Len(header) + 1
                        ELSE CHOOSE j \in later : \A k \in later : j <= k
            IN [name |-> Strip(SubSeq(header, i, next - 1)),
                start |-> i - 1,
                end |-> IF later = {} THEN NoEnd ELSE next - 1]
    IN {Column(i) : i \in starts}

\* ColumnRanges(header): ValueError, or the columns.
ColumnRanges(header) ==
    IF HeaderIsBlank(header) THEN [error |-> "ValueError", columns |-> {}]
    ELSE [error |-> "none", columns |-> Columns(header)]

\* TextTable: the value of a column in a line: the slice, stripped, or None
\* when nothing is left.
Cell(line, column) ==
    LET text == Strip(Slice(line, column.start, column.end))
    IN IF text = <<>> THEN None ELSE text

\* TextTable: the row a line stands for, a dictionary from column names to
\* values.
ParseRow(line, columns) ==
    [name \in {c.name : c \in columns} |->
        Cell(line, CHOOSE c \in columns :
                       /\ c.name = name
                       /\ \A d \in columns : d.name = name => d.start <= c.start)]

AppendRowAlways(rows, row, allow_duplicate) == Append(rows, row)

\* TextTable.append: a row the table has already is dropped unless
\* allow_duplicate is set.
AppendRow(rows, row, allow_duplicate) ==
    IF allow_duplicate \/ row \notin Range(rows) THEN Append(rows, row)
    ELSE rows

\* TextTable.__init__: every line after the header is appended as a row.
RECURSIVE AppendLines(_, _, _)
AppendLines(rows, lines, columns) ==
    IF lines = <<>> THEN rows
    ELSE AppendLines(AppendRow(rows, ParseRow(Head(lines), columns), FALSE),
                     Tail(lines), columns)

ParseHeaderUnstripped(text) ==
    IF SplitLines(text) = <<>> THEN <<>> ELSE SplitLines(text)[1]

\* TextTable.__init__: the header is the first line, stripped.
ParseHeader(text) ==
    IF SplitLines(text) = <<>> THEN <<>> ELSE Strip(SplitLines(text)[1])

\* TextTable(text)
TextTable(text) ==
    LET ranges == ColumnRanges(ParseHeader(text))
    IN IF ranges.error # "none" THEN [NoTable EXCEPT !.error = ranges.error]
       ELSE [error |-> "none",
             columns |-> ranges.columns,
             rows |-> AppendLines(<<>>, Tail(SplitLines(text)), ranges.columns),
             allow_duplicate |-> FALSE]

\* ------------------------------------------------ the tables looked at
\* TextTableTest.table
ExampleTable ==
    <<" ", " ", "o", "n", "e", " ", " ", " ", "t", "w", "o", " ", " ",
      " ", "t", "h", "r", "e", "e", " ", " ", "\n", "f", "o", "o", " ",
      " ", " ", "b", "a", "r", " ", " ", " ", "\n", "1", " ", " ", " ",
      " ", " ", "2", " ", " ", " ", " ", " ", "3", " ", " ", " ", "4",
      " ", " ", "\n", "\n", " ", " ", " ", " ", " ", "a", " ", " ",
      " ", " ", " ", "b", " ", " ", " ", " ", " ", "c", "\n", "\n">>

\* The headers given to ColumnRanges.
HeaderChars == {" ", "\n", Nul, "a"}

Headers == SeqsUpTo(HeaderChars, MaxHeaderLen)

\* Lines joined by newlines.
RECURSIVE JoinLines(_)
JoinLines(lines) ==
    IF lines = <<>> THEN <<>>
    ELSE IF Len(lines) = 1 THEN lines[1]
    ELSE lines[1] \o <<"\n">> \o JoinLines(Tail(lines))

\* Small tables with the columns a and b.
TableHeaders == {<<"a", " ", " ", "b">>, <<" ", "a", " ", " ", "b", " ">>}

TableLines == {<<"x", " ", " ", "y">>, <<"x">>, <<" ", " ", " ", "y">>, <<>>}

TableTexts ==
    {ExampleTable} \cup
    {JoinLines(<<h>> \o lines) :
        h \in TableHeaders, lines \in SeqsUpTo(TableLines, MaxLines)}

\* The rows a caller appends: every column None or 'x'.
AppendedRows(columns) == [{c.name : c \in columns} -> {None, <<"x">>}]

InitTable ==
    /\ SubtestUnused
    /\ hstage = "table"
    /\ ConfigUnused
    /\ TableUnused
    /\ KillUnused
    /\ RestUnused

not_table_vars == <<subtest_vars, hstage, cache_vars, inherit_vars, kill_vars,
                    rest_vars>>

\* ColumnRanges(header), for itself.
ColumnRangesInit ==
    /\ hstage = "table" /\ table = NoTable
    /\ \E header \in Headers :
        table_op' = [op |-> "ColumnRanges", arg |-> header,
                     result |-> ColumnRanges(header)]
    /\ UNCHANGED <<table, not_table_vars>>

\* TextTable(text)
TextTableInit ==
    /\ hstage = "table" /\ table = NoTable
    /\ \E text \in TableTexts :
        /\ table' = TextTable(text)
        /\ table_op' = [op |-> "TextTable", arg |-> text, result |-> None]
    /\ UNCHANGED not_table_vars

\* table.append(row)
TextTableAppend ==
    /\ hstage = "table" /\ table_op.op \in {"TextTable", "append", "allow_duplicate"}
    /\ table.error = "none"
    /\ Len(table.rows) < MaxRows
    /\ \E row \in AppendedRows(table.columns) :
        /\ table' = [table EXCEPT
                         !.rows = AppendRow(@, row, table.allow_duplicate)]
        /\ table_op' = [op |-> "append", arg |-> row, result |-> None]
    /\ UNCHANGED not_table_vars

\* table.allow_duplicate = True or False
SetAllowDuplicate ==
    /\ hstage = "table" /\ table_op.op \in {"TextTable", "append", "allow_duplicate"}
    /\ table.error = "none"
    /\ table' = [table EXCEPT !.allow_duplicate = ~@]
    /\ table_op' = [op |-> "allow_duplicate", arg |-> <<>>, result |-> None]
    /\ UNCHANGED not_table_vars

NextTable ==
    \/ ColumnRangesInit
    \/ TextTableInit
    \/ TextTableAppend
    \/ SetAllowDuplicate

SpecTable == InitTable /\ [][NextTable]_vars

\* ================== DockerContainersCLI.kill_container_by_long_id
\* A container as the daemon has it: "stopped": State.Running is false;
\* "defunct": State.Running is true and the process is not alive;
\* "running": State.Running is true and the process is alive.
ContainerStates == {"absent", "stopped", "defunct", "running"}

Container(state, pid) ==
    [state |-> state, pid |-> IF state \in {"defunct", "running"} THEN pid ELSE 0]

\* The process a container of that id runs as.
PidOf(long_id) == IF long_id = "c1" THEN 11 ELSE 12

\* get_container_metadata: 'docker inspect' fails for a container the
\* daemon does not know, and None is returned; otherwise the JSON.
GetContainerMetadata(container) ==
    IF container.state = "absent"
    THEN [found |-> FALSE, Running |-> FALSE, Pid |-> 0]
    ELSE [found |-> TRUE,
          Running |-> container.state \in {"defunct", "running"},
          Pid |-> container.pid]

\* json_by_long_id: ValueError when get_container_metadata returned None.
JsonByLongId(container) ==
    [raised |-> IF GetContainerMetadata(container).found THEN "none"
                ELSE "ValueError",
     json |-> GetContainerMetadata(container)]

\* utils.pid_is_alive(pid)
PidIsAlive(container) == container.state = "running"

\* kill_container_by_long_id: a TypeError of json_by_long_id becomes
\* KeyError and any other exception is passed on; ValueError unless the
\* container is running and alive; then the kill command, whose non-zero
\* exit status raises CmdError. What it raised, the pid it returned and the
\* kill commands it ran.
KillContainerByLongId(container, exit_status) ==
    LET found == JsonByLongId(container)
    IN CASE found.raised = "TypeError" ->
              [raised |-> "KeyError", pid |-> 0, kills |-> 0]
         [] found.raised # "none" ->
              [raised |-> found.raised, pid |-> 0, kills |-> 0]
         [] ~found.json.Running \/ ~PidIsAlive(container) ->
              [raised |-> "ValueError", pid |-> 0, kills |-> 0]
         [] exit_status # 0 ->
              [raised |-> "CmdError", pid |-> 0, kills |-> 1]
         [] OTHER ->
              [raised |-> "none", pid |-> found.json.Pid, kills |-> 1]

InitKill ==
    /\ SubtestUnused
    /\ hstage = "kill"
    /\ ConfigUnused
    /\ TableUnused
    /\ KillUnused
    /\ RestUnused

not_kill_vars == <<subtest_vars, hstage, cache_vars, inherit_vars, table_vars,
                   rest_vars>>

\* Outside the tests: a container is started, stops, dies or is removed.
DaemonChange ==
    /\ hstage = "kill"
    /\ \E long_id \in LongIds, state \in ContainerStates :
        /\ containers[long_id].state # state
        /\ containers' = [containers EXCEPT
                              ![long_id] = Container(state, PidOf(long_id))]
    /\ UNCHANGED <<commands, kill_result, not_kill_vars>>

\* kill_container_by_long_id(long_id): 'docker inspect', then 'docker kill'
\* when it comes to that; a kill that exits with zero stops the container.
KillContainerByLongIdCall ==
    /\ hstage = "kill"
    /\ Len(commands) + 2 <= MaxCommands
    /\ \E long_id \in LongIds, exit_status \in {0, 1} :
        LET did == KillContainerByLongId(containers[long_id], exit_status)
        IN /\ commands' = commands \o <<[cmd |-> "inspect", long_id |-> long_id]>>
                   \o IF did.kills = 1
                      THEN <<[cmd |-> "kill", long_id |-> long_id]>> ELSE <<>>
           /\ kill_result' = [long_id |-> long_id, raised |-> did.raised,
                               pid |-> did.pid]
           /\ containers' = IF did.raised = "none"
                             THEN [containers EXCEPT
                                      ![long_id] = Container("stopped", 0)]
                             ELSE containers
    /\ UNCHANGED not_kill_vars

NextKill ==
    \/ DaemonChange
    \/ KillContainerByLongIdCall

SpecKill == InitKill /\ [][NextKill]_vars

\* ===================== SubSubtestCaller.initialize: the 'subsubtests' option
\* 'not value' for a value of the config
Falsy(value) ==
    IF value.type = "str" THEN value.text = <<>> ELSE value.num = 0

\* initialize: what it raises and the names it sets, for the value
\* self.config['subsubtests'] has. Only a string has the method strip.
SubsubtestNames(value) ==
    IF Falsy(value) THEN [raised |-> "DockerTestNAError", names |-> <<>>]
    ELSE IF value.type # "str" THEN [raised |-> "AttributeError", names |-> <<>>]
    ELSE [raised |-> "none", names |-> Split(Strip(value.text), ",")]

\* The option as the parser of the ini files gives it: without whitespace
\* at its ends.
OptionTextChars == {"a", "n", "o", "0", ","}

OptionTexts == {text \in SeqsUpTo(OptionTextChars, MaxOptionLen) : Strip(text) = text}

InitNames ==
    /\ SubtestUnused
    /\ hstage = "initialize"
    /\ ConfigUnused
    /\ TableUnused
    /\ KillUnused
    /\ option_text \in OptionTexts
    /\ new_calls = <<>>
    /\ FrameUnused
    /\ ResultUnused
    /\ PollingUnused

not_names_vars == <<variant, subsubtests, iterations, iteration, pc, todo,
                    start_subsubtests, run_subsubtests, post_subsubtests,
                    final_subsubtests, final_local, cleanup_failures, ninst,
                    cur, cleanups, sim_calls, cleanup_raised, post_result,
                    config_section, disable, entered, cd_own, cd_defaults,
                    lk_key, lk_result, cache_vars, inherit_vars, table_vars,
                    kill_vars, frame_vars, result_vars, polling_vars>>

\* SubSubtestCaller.initialize, with the option as Subtest.config has it.
NamesInitialize ==
    /\ hstage = "initialize"
    /\ LET did == SubsubtestNames(TypedLookup(option_text))
       IN IF did.raised # "none"
          THEN /\ raised' = Exc(did.raised, 0, "initialize")
               /\ hstage' = "cleanup"
               /\ UNCHANGED <<subsubtest_names, idx>>
          ELSE /\ subsubtest_names' = did.names
               /\ idx' = 1
               /\ hstage' = "run_once"
               /\ UNCHANGED raised
    /\ UNCHANGED <<option_text, new_calls, not_names_vars>>

\* SubSubtestCaller.run_once: one turn of its loop, up to the call of
\* new_subsubtest.
NamesRunOnce ==
    /\ hstage = "run_once"
    /\ idx <= Len(subsubtest_names)
    /\ new_calls' = Append(new_calls, subsubtest_names[idx])
    /\ idx' = idx + 1
    /\ UNCHANGED <<option_text, hstage, subsubtest_names, raised, not_names_vars>>

NextNames ==
    \/ NamesInitialize
    \/ NamesRunOnce

SpecNames == InitNames /\ [][NextNames]_vars

\* ===================================== the config dictionaries in memory
\* The sections the ini files give the parent and the child class C; the
\* child class D has no section.
FrameInis == {s \in IniChoices : s.other = NoSection}

ParentConfigShared(parent, fresh) == parent

\* SubSubtest.__init__: self.parent_subtest.config.copy() is a new dictionary.
ParentConfigCopy(parent, fresh) == fresh

\* The dictionaries of memory: those of the Config cache (one per section),
\* the config of the parent, which Config() copied from the cache, and those
\* of the children.
InitFrame ==
    /\ SubtestUnused
    /\ hstage = "children"
    /\ ConfigUnused
    /\ TableUnused
    /\ KillUnused
    /\ NamesUnused
    /\ \E s \in FrameInis :
         dicts = <<Export(Section(s.defaults), s.defaults),
                   Export(s.parent, s.defaults),
                   Export(s.child, s.defaults),
                   [present |-> TRUE,
                    items |-> InitConfigOf(AllConfigs(s, config_section),
                                           config_section)]>>
    /\ refs = [cache |-> [defaults |-> 1, parent |-> 2, child |-> 3],
               parent |-> 4, children |-> <<>>, last |-> 0]
    /\ ResultUnused
    /\ PollingUnused

not_frame_vars == <<subtest_vars, hstage, cache_vars, inherit_vars, table_vars,
                    kill_vars, names_vars, result_vars, polling_vars>>

\* SubSubtest.__init__ of a child of class C or D: Config() hands out copies
\* of the cached sections, the config of the child is the copy of the
\* parent's config, which make_subsubtest_config writes to when the child
\* has a section. Neither class has an 'enable' option.
SubSubtestConstruct ==
    /\ Len(refs.children) < MaxChildren
    /\ \E class \in {"C", "D"} :
        LET all_configs == [name \in {<<"DEFAULTS">>} |->
                               dicts[refs.cache.defaults]]
            subsubtest_config == dicts[refs.cache.child]
            at == ParentConfigCopy(refs.parent, Len(dicts) + 1)
            copied == dicts[refs.parent].items
            config == IF class = "D" \/ ~subsubtest_config.present
                      THEN copied
                      ELSE MakeSubsubtestConfig(all_configs, copied,
                                                subsubtest_config.items)
            made == [present |-> TRUE, items |-> config]
        IN /\ dicts' = IF at > Len(dicts) THEN Append(dicts, made)
                       ELSE [dicts EXCEPT ![at] = made]
           /\ refs' = [refs EXCEPT !.children = Append(@, at),
                                   !.last = Len(refs.children) + 1]
    /\ UNCHANGED not_frame_vars

\* A child writes an option of its config.
ChildSetItem ==
    /\ \E i \in 1..Len(refs.children), key \in OptionNames,
          value \in MutationValues :
        /\ dicts[refs.children[i]].items[key] # value
        /\ dicts' = [dicts EXCEPT ![refs.children[i]].items[key] = value]
        /\ refs' = [refs EXCEPT !.last = i]
    /\ UNCHANGED not_frame_vars

\* A child deletes an option of its config.
ChildDelItem ==
    /\ \E i \in 1..Len(refs.children), key \in OptionNames :
        /\ dicts[refs.children[i]].items[key] # Absent
        /\ dicts' = [dicts EXCEPT ![refs.children[i]].items[key] = Absent]
        /\ refs' = [refs EXCEPT !.last = i]
    /\ UNCHANGED not_frame_vars

NextFrame ==
    \/ SubSubtestConstruct
    \/ ChildSetItem
    \/ ChildDelItem

SpecFrame == InitFrame /\ [][NextFrame]_vars

\* ================= run_once of rmi_base, tag_base and run_signal: the wait
\* The tests whose run_once starts a docker command in the background.
PollingTests == {"rmi", "tag", "run_signal"}

\* The 'secret_sauce' option of run_signal.
SecretSauce == <<"s">>

\* str.count(sub), for a text without overlapping occurrences of sub.
Count(text, sub) ==
    Cardinality({i \in 0..(Len(text) - Len(sub)) :
                    SubSeq(text, i + 1, i + Len(sub)) = sub})

\* rmi_base.run_once and tag_base.run_once: 'while not dkrcmd.done'.
WhileNotDoneGoesOn(cmd) == ~cmd.done

\* run_signal.run_once: 'while True' with 'if stdout.count(ss) >= 1: break'.
WhileTrueGoesOn(cmd) == ~(Count(cmd.stdout, SecretSauce) >= 1)

InitPolling ==
    /\ SubtestUnused
    /\ hstage = "run_once"
    /\ ConfigUnused
    /\ TableUnused
    /\ KillUnused
    /\ NamesUnused
    /\ FrameUnused
    /\ ResultUnused
    /\ dkrcmd = NoDockerCmd
    /\ polling \in [test : PollingTests, pc : {"execute"}]

not_polling_vars == <<subtest_vars, hstage, cache_vars, inherit_vars, table_vars,
                      kill_vars, names_vars, frame_vars, result_vars>>

\* dkrcmd.execute(): the command runs in the background from now on.
DkrcmdExecute ==
    /\ polling.pc = "execute"
    /\ dkrcmd' = [dkrcmd EXCEPT !.started = TRUE]
    /\ polling' = [polling EXCEPT !.pc = "loop"]
    /\ UNCHANGED not_polling_vars

\* The background command prints a character.
CommandPrints ==
    /\ dkrcmd.started /\ ~dkrcmd.done
    /\ Len(dkrcmd.stdout) < MaxStdoutLen
    /\ \E c \in {"s", "x"} :
         dkrcmd' = [dkrcmd EXCEPT !.stdout = Append(@, c)]
    /\ UNCHANGED <<polling, not_polling_vars>>

\* The background command exits.
CommandFinishes ==
    /\ dkrcmd.started /\ ~dkrcmd.done
    /\ dkrcmd' = [dkrcmd EXCEPT !.done = TRUE]
    /\ UNCHANGED <<polling, not_polling_vars>>

\* rmi_base.run_once, tag_base.run_once: the test of the while loop.
WhileNotDone ==
    /\ polling.test \in {"rmi", "tag"} /\ polling.pc = "loop"
    /\ polling' = [polling EXCEPT
                       !.pc = IF WhileNotDoneGoesOn(dkrcmd) THEN "sleep"
                              ELSE "wait"]
    /\ UNCHANGED <<dkrcmd, not_polling_vars>>

\* run_signal.run_once: one turn of the while loop up to the sleep.
WhileTrue ==
    /\ polling.test = "run_signal" /\ polling.pc = "loop"
    /\ polling' = [polling EXCEPT
                       !.pc = IF WhileTrueGoesOn(dkrcmd) THEN "sleep"
                              ELSE "signal"]
    /\ UNCHANGED <<dkrcmd, not_polling_vars>>

\* time.sleep() at the end of a turn of the loop.
TimeSleep ==
    /\ polling.pc = "sleep"
    /\ polling' = [polling EXCEPT !.pc = "loop"]
    /\ UNCHANGED <<dkrcmd, not_polling_vars>>

\* run_signal.run_once after the loop: failif(not pid_is_alive(pid)), then
\* signal_pid.
SignalPid ==
    /\ polling.pc = "signal"
    /\ polling' = [polling EXCEPT
                       !.pc = IF dkrcmd.done THEN "DockerTestFail" ELSE "wait"]
    /\ UNCHANGED <<dkrcmd, not_polling_vars>>

\* dkrcmd.wait() returns once the command has exited.
DkrcmdWait ==
    /\ polling.pc = "wait"
    /\ dkrcmd.done
    /\ polling' = [polling EXCEPT !.pc = "returned"]
    /\ UNCHANGED <<dkrcmd, not_polling_vars>>

\* The steps of run_once.
RunOnceStep ==
    \/ DkrcmdExecute
    \/ WhileNotDone
    \/ WhileTrue
    \/ TimeSleep
    \/ SignalPid
    \/ DkrcmdWait

NextPolling ==
    \/ DkrcmdExecute
    \/ CommandPrints
    \/ CommandFinishes
    \/ WhileNotDone
    \/ WhileTrue
    \/ TimeSleep
    \/ SignalPid
    \/ DkrcmdWait

SpecPolling == InitPolling /\ [][NextPolling]_vars

\* run_once is the one thread of the test: it always takes its next step.
SpecPollingFair == SpecPolling /\ WF_vars(RunOnceStep)

\* ============================== postprocess of tag_base, rmi_base and flag
\* failif(condition, reason)
FailIf(condition) == IF condition THEN "DockerTestFail" ELSE "pass"

\* tag_base.postprocess. good: OutputGood finds nothing wrong in the output;
\* image: check_image_exists finds the new image.
TagPostprocess(expected, result, image) ==
    CASE expected = "PASS" ->
            IF ~result.good THEN "DockerOutputError"
            ELSE IF result.exit_status # 0 THEN "DockerTestFail"
            ELSE FailIf(~image)
      [] expected = "FAIL" ->
            LET og == result.good
                es == result.exit_status = 0
            IN FailIf(~og \/ ~es)
      [] OTHER -> "pass"

\* rmi_base.postprocess. image: check_image_exists still finds the image.
RmiPostprocess(expected, result, image) ==
    CASE expected = "PASS" ->
            IF ~result.good THEN "DockerOutputError"
            ELSE IF result.exit_status # 0 THEN "DockerTestFail"
            ELSE FailIf(image)
      [] expected = "FAIL" -> FailIf(result.exit_status = 0)
      [] OTHER -> FailIf(TRUE)

\* searched_info in stderr
In(sub, text) ==
    \E i \in 0..(Len(text) - Len(sub)) : SubSeq(text, i + 1, i + Len(sub)) = sub

\* flag.postprocess
FlagPostprocess(searched_info, result) ==
    IF result.exit_status # 0 /\ In(searched_info, result.stderr) THEN "pass"
    ELSE IF result.exit_status = 0 THEN FailIf(TRUE)
    ELSE "pass"

\* The results a docker command may have.
CmdResults ==
    [exit_status : {0, 1}, good : BOOLEAN,
     stderr : SeqsUpTo({"u", "x"}, MaxStderrLen)]

\* The tests and their options.
TestsLookedAt ==
    {[NoVerdict EXCEPT !.test = t, !.expected = e, !.image = i] :
        t \in {"tag", "rmi"}, e \in {"PASS", "FAIL", "other"}, i \in BOOLEAN}
    \cup {[NoVerdict EXCEPT !.test = "flag", !.searched_info = text] :
              text \in {<<"u">>, <<"u", "x">>}}

InitResult ==
    /\ SubtestUnused
    /\ hstage = "postprocess"
    /\ ConfigUnused
    /\ TableUnused
    /\ KillUnused
    /\ NamesUnused
    /\ FrameUnused
    /\ cmdresult \in CmdResults
    /\ verdict \in TestsLookedAt
    /\ PollingUnused

not_result_vars == <<subtest_vars, hstage, cache_vars, inherit_vars, table_vars,
                     kill_vars, names_vars, frame_vars, polling_vars>>

TagPostprocessCall ==
    /\ verdict.test = "tag" /\ verdict.outcome = "none"
    /\ verdict' = [verdict EXCEPT
                       !.outcome = TagPostprocess(verdict.expected, cmdresult,
                                                  verdict.image)]
    /\ UNCHANGED <<cmdresult, not_result_vars>>

RmiPostprocessCall ==
    /\ verdict.test = "rmi" /\ verdict.outcome = "none"
    /\ verdict' = [verdict EXCEPT
                       !.outcome = RmiPostprocess(verdict.expected, cmdresult,
                                                  verdict.image)]
    /\ UNCHANGED <<cmdresult, not_result_vars>>

FlagPostprocessCall ==
    /\ verdict.test = "flag" /\ verdict.outcome = "none"
    /\ verdict' = [verdict EXCEPT
                       !.outcome = FlagPostprocess(verdict.searched_info, cmdresult)]
    /\ UNCHANGED <<cmdresult, not_result_vars>>

NextResult ==
    \/ TagPostprocessCall
    \/ RmiPostprocessCall
    \/ FlagPostprocessCall

SpecResult == InitResult /\ [][NextResult]_vars

\* ================================================================= claims
StageNames == {"initialize", "run_once", "postprocess"}

\* The sequential variant is inside run_all_stages for the child cur.
SeqChildInProgress ==
    variant = "seq" /\ hstage = "run_once" /\ pc \in {"stages", "child_cleanup"}

\* The sequential variant has left run_all_stages for the child cur.
SeqChildOver ==
    variant = "seq" /\ cur.inst > 0 /\ ~SeqChildInProgress

\* An exception raised by a stage of a child (not by its cleanup, and not
\* by the orchestrator itself).
IsStageExc(exc) == exc.inst > 0 /\ exc.stage \in StageNames

Unexpected(exc) == exc # NoExc /\ exc.kind \notin AutotestErrors

\* C1: sequential variant: every child entered in start_subsubtests has
\* cleanup() called exactly once, after the last stage attempted on it,
\* whichever stage raised and whatever was raised; when a stage's exception
\* leaves run_once, the child's cleanup() has already been called.
C1_CleanupExactlyOnce ==
    variant = "seq" =>
        /\ Values(start_subsubtests) \subseteq 1..ninst
        /\ \A i \in 1..ninst :
            /\ cleanups[i] <= 1
            /\ (SeqChildInProgress /\ i = cur.inst) \/ cleanups[i] = 1
        /\ \A k \in 1..Len(cur.calls) :
            cur.calls[k] = "cleanup" => k = Len(cur.calls) /\ k > 1
        /\ SeqChildOver => cur.calls[Len(cur.calls)] = "cleanup"
        /\ (IsStageExc(raised) /\ raised.inst = cur.inst) =>
              /\ cleanups[cur.inst] = 1
              /\ cur.calls[Len(cur.calls)] = "cleanup"
              /\ cur.calls[Len(cur.calls) - 1] = raised.stage

C1_Witness ==
    /\ variant = "seq"
    /\ raised.kind = "Exception" /\ raised.stage = "run_once"
    /\ raised.inst = cur.inst /\ cur.inst = 2
    /\ cleanups = <<1, 1>>
    /\ cur.calls = <<"initialize", "run_once", "cleanup">>

\* C2 as stated: sequential variant: an unexpected exception raised by a
\* stage is what leaves run_once after the child's cleanup(), whether
\* cleanup() returns or raises.
C2_Original ==
    (SeqChildOver /\ Unexpected(cur.stage_exc)) => raised = cur.stage_exc

\* C2 (amended): sequential variant: an unexpected exception raised by a
\* stage is never swallowed: after the child's cleanup() an exception leaves
\* run_once; it is the very exception the stage raised when cleanup()
\* returns, and the TestError naming the child when cleanup() raises.
C2_UnexpectedPropagates ==
    (SeqChildOver /\ Unexpected(cur.stage_exc)) =>
        /\ cleanups[cur.inst] = 1
        /\ hstage \in {"cleanup", "done"}
        /\ raised # NoExc
        /\ cur.cleanup_exc = NoExc => raised = cur.stage_exc
        /\ cur.cleanup_exc # NoExc =>
              /\ raised.kind = "TestError" /\ raised.stage = "cleanup"
              /\ raised.inst = cur.inst /\ raised.report = {cur.name}

C2_Witness ==
    /\ SeqChildOver
    /\ cur.stage_exc.kind = "Exception" /\ cur.stage_exc.stage = "postprocess"
    /\ cur.cleanup_exc = NoExc
    /\ raised = cur.stage_exc
    /\ hstage = "done"

\* C3 as stated: sequential variant: when a child's stage raised an
\* AutotestError, nothing raised on behalf of that child leaves run_once, so
\* that the loop goes on to every later name.
C3_Original ==
    (SeqChildOver /\ cur.stage_exc.kind \in AutotestErrors) =>
        raised.inst # cur.inst

\* C3 (amended): sequential variant: an AutotestError raised by a child's
\* stage is recorded only by the child not being added to final_subsubtests:
\* nothing is pending when try_all_stages is left and no stage exception of
\* that class ever leaves run_once; the loop goes on to the next name
\* provided the child's cleanup() returns. run_once stops before the end of
\* subsubtest_names only for an unexpected stage exception or a cleanup
\* failure of the child it stopped at, or because new_subsubtest raised.
C3_KnownFailureIsLocal ==
    variant = "seq" =>
        /\ cur.stage_exc.kind \in AutotestErrors =>
              /\ cur.pending = NoExc
              /\ ~cur.added
              /\ (SeqChildOver /\ cur.cleanup_exc = NoExc) =>
                    (raised.inst = 0 /\ (hstage = "run_once" => pc = "new"))
        /\ IsStageExc(raised) => raised.kind \notin AutotestErrors
        /\ (hstage \in {"postprocess", "cleanup", "done"}
            /\ subsubtest_names # <<>> /\ idx <= Len(subsubtest_names)) =>
              \/ raised.stage = "new_subsubtest"
              \/ /\ cur.name = subsubtest_names[idx]
                 /\ raised.inst = cur.inst
                 /\ \/ raised = cur.stage_exc /\ Unexpected(raised)
                    \/ raised.kind = "TestError" /\ cur.cleanup_exc # NoExc
        /\ post_result.done => idx = Len(subsubtest_names) + 1

C3_Witness ==
    /\ variant = "seq"
    /\ subsubtest_names = <<"A", "B">> /\ iterations = 1
    /\ post_result.done
    /\ post_result.start = {"A", "B"} /\ post_result.final = {"B"}
    /\ cur.name = "B" /\ cur.calls = <<"initialize", "run_once", "postprocess", "cleanup">>

\* C4: sequential variant: a child's name is added to final_subsubtests if
\* and only if initialize, run_once and postprocess were called on it in
\* that order and all returned; once a stage raises, no later stage of the
\* child is called and the name is not added.
C4_FinalIffAllStages ==
    variant = "seq" =>
        LET n == Len(cur.calls)
            stages == IF n > 0 /\ cur.calls[n] = "cleanup"
                      THEN SubSeq(cur.calls, 1, n - 1) ELSE cur.calls
            all == <<"initialize", "run_once", "postprocess">>
        IN /\ Len(stages) <= 3
           /\ stages = SubSeq(all, 1, Len(stages))
           /\ cur.added <=> (stages = all /\ cur.stage_exc = NoExc)
           /\ cur.added => cur.name \in final_subsubtests
           /\ cur.stage_exc # NoExc =>
                 /\ Len(stages) > 0
                 /\ stages[Len(stages)] = cur.stage_exc.stage
                 /\ ~cur.added
           /\ final_subsubtests \subseteq Keys(start_subsubtests)
           /\ (ninst = 1 /\ ~cur.added) => final_subsubtests = {}

C4_Witness ==
    /\ variant = "seq"
    /\ cur.added /\ cur.name \in final_subsubtests
    /\ cur.calls = <<"initialize", "run_once", "postprocess", "cleanup">>
    /\ ninst = 1

\* The orchestrator's postprocess has been called and has been left: by its
\* comparison, or (simultaneous variant) by an exception of a child's
\* postprocess that it did not catch.
PostprocessLeft ==
    \/ post_result.done
    \/ variant = "sim" /\ IsStageExc(raised) /\ raised.stage = "postprocess"

Started == Keys(start_subsubtests)

Completed == IF variant = "seq" THEN final_subsubtests ELSE final_local

\* C5 as stated: both variants: postprocess raises DockerTestFail if and
\* only if the started names differ from the completed names, the report
\* names exactly started minus completed, and postprocess returns normally
\* when the two sets are equal.
C5_Original ==
    PostprocessLeft =>
        /\ (raised.kind = "DockerTestFail" /\ raised.inst = 0)
              <=> (Started # Completed)
        /\ Started # Completed => raised.report = Started \ Completed
        /\ Started = Completed => raised = NoExc

\* C5 (amended): both variants: when postprocess reaches its comparison it
\* raises DockerTestFail if and only if the started names differ from the
\* completed names, the report names exactly started minus completed, and it
\* returns normally when they are equal (both empty included); in the
\* simultaneous variant an unexpected exception of a child's postprocess
\* leaves postprocess instead, before any comparison and without a report.
C5_PostprocessVerdict ==
    PostprocessLeft =>
        IF post_result.done
        THEN /\ post_result.start = Started
             /\ post_result.final = Completed
             /\ Completed \subseteq Started
             /\ (raised.kind = "DockerTestFail") <=> (Started # Completed)
             /\ Started # Completed =>
                   raised = Report("DockerTestFail", "postprocess",
                                   Started \ Completed)
             /\ Started = Completed => raised = NoExc
        ELSE /\ Unexpected(raised)
             /\ sim_calls[raised.inst].name \in Started \ Completed

C5_Witness ==
    /\ post_result.done /\ variant = "sim"
    /\ Started = {"A", "B"} /\ Completed = {"B"}
    /\ raised.kind = "DockerTestFail" /\ raised.report = {"A"}
    /\ hstage = "done"

\* Simultaneous variant: some child has had this method called.
SimSomeCalled(stage) ==
    \E i \in 1..ninst :
        CASE stage = "initialize" -> sim_calls[i].initialize > 0
          [] stage = "run_once" -> sim_calls[i].run_once > 0
          [] stage = "postprocess" -> sim_calls[i].postprocess > 0
          [] OTHER -> cleanups[i] > 0

\* Simultaneous variant: the batches that must be complete before a stage.
SimInitializeBatchDone ==
    /\ idx > Len(subsubtest_names)
    /\ \A i \in 1..ninst : sim_calls[i].initialize = 1

SimRunOnceBatchDone ==
    \A n \in Keys(run_subsubtests) :
        sim_calls[run_subsubtests[n]].run_once = iterations

SimPostprocessBatchDone ==
    \A n \in Keys(post_subsubtests) :
        sim_calls[post_subsubtests[n]].postprocess = 1

\* C6 as stated: simultaneous variant: no child's run_once is called before
\* initialize was attempted on every instantiated child, no child's
\* postprocess before run_once was attempted on every initialize-survivor,
\* no child's cleanup before postprocess was attempted on every
\* run_once-survivor.
C6_Original ==
    variant = "sim" =>
        /\ SimSomeCalled("run_once") => SimInitializeBatchDone
        /\ SimSomeCalled("postprocess") => SimRunOnceBatchDone
        /\ SimSomeCalled("cleanup") => SimPostprocessBatchDone

\* C6 (amended): simultaneous variant: no child's run_once is called before
\* initialize was attempted on every instantiated child, no child's
\* postprocess before run_once was attempted on every initialize-survivor,
\* and no child's cleanup before postprocess was attempted on every
\* run_once-survivor unless an unexpected exception of a child left the
\* orchestrator's run_once or postprocess (the survivors not yet visited are
\* then skipped and cleanup follows).
C6_StagesBatched ==
    variant = "sim" =>
        /\ SimSomeCalled("run_once") => SimInitializeBatchDone
        /\ SimSomeCalled("postprocess") => SimRunOnceBatchDone
        /\ SimSomeCalled("cleanup") =>
              \/ SimPostprocessBatchDone
              \/ /\ IsStageExc(raised) /\ Unexpected(raised)
                 /\ raised.stage \in {"run_once", "postprocess"}

C6_Witness ==
    /\ variant = "sim" /\ hstage = "done" /\ iterations = 2
    /\ ninst = 2 /\ Keys(post_subsubtests) = {"A", "B"}
    /\ cleanups = <<1, 1>>
    /\ SimPostprocessBatchDone /\ SimRunOnceBatchDone
    /\ raised = NoExc

\* C7 as stated: simultaneous variant: if a child's initialize raises (any
\* exception), its run_once and postprocess are never called, and every
\* other configured child, listed before or after it, is still visited by
\* initialize.
C7_Original ==
    variant = "sim" =>
        \A i \in 1..ninst :
            "initialize" \in sim_calls[i].failed =>
                /\ sim_calls[i].run_once = 0
                /\ sim_calls[i].postprocess = 0
                /\ hstage # "initialize" =>
                      \/ idx >= Len(subsubtest_names)
                      \/ raised.stage = "new_subsubtest"

\* C7 (amended): simultaneous variant: if a child's initialize raises, its
\* run_once and postprocess are never called; when it raised an
\* AutotestError every other configured child, listed before or after it,
\* is still visited by initialize unless new_subsubtest itself raises; when
\* it raised anything else the exception leaves the orchestrator's
\* initialize at once and the children listed after it are never
\* constructed.
C7_InitializeFailure ==
    variant = "sim" =>
        /\ \A i \in 1..ninst :
            "initialize" \in sim_calls[i].failed =>
                /\ sim_calls[i].run_once = 0
                /\ sim_calls[i].postprocess = 0
        /\ \A i \in 1..ninst :
            ("initialize" \in sim_calls[i].failed /\ sim_calls[i].unexpected) =>
                /\ raised.inst = i /\ raised.stage = "initialize"
                /\ Unexpected(raised)
                /\ i = ninst /\ hstage \in {"cleanup", "done"}
                /\ sim_calls[i].name = subsubtest_names[idx]
        /\ (hstage # "initialize" /\ subsubtest_names # <<>>) =>
              IF IsStageExc(raised) /\ raised.stage = "initialize"
              THEN /\ Unexpected(raised)
                   /\ raised.inst = ninst
                   /\ sim_calls[ninst].name = subsubtest_names[idx]
                   /\ ~SimSomeCalled("run_once")
              ELSE /\ \/ idx = Len(subsubtest_names) + 1
                      \/ raised.stage = "new_subsubtest"
                   /\ \A i \in 1..ninst :
                        "initialize" \in sim_calls[i].failed =>
                            run_subsubtests[sim_calls[i].name] # i

C7_Witness ==
    /\ variant = "sim" /\ hstage = "done"
    /\ subsubtest_names = <<"A", "B">> /\ ninst = 2
    /\ sim_calls[1].failed = {"initialize"}
    /\ sim_calls[1].run_once = 0 /\ sim_calls[1].postprocess = 0
    /\ sim_calls[2].initialize = 1 /\ sim_calls[2].run_once = 1
    /\ sim_calls[2].postprocess = 1

\* C8 as stated: simultaneous variant: for any number of iterations, a child
\* whose run_once raised in some iteration never has postprocess called and
\* is never counted as completed.
C8_Original ==
    variant = "sim" =>
        \A i \in 1..ninst :
            "run_once" \in sim_calls[i].failed =>
                /\ sim_calls[i].postprocess = 0
                /\ ~(post_subsubtests[sim_calls[i].name] = i
                     /\ sim_calls[i].name \in final_local)

\* C9 as stated: simultaneous variant: the orchestrator's cleanup calls
\* cleanup() exactly once on every child of start_subsubtests, whatever
\* another child's cleanup() raised; if a child's cleanup raised, one
\* DockerTestError naming every such child is raised after all children
\* were attempted, and it is not the DockerTestFail of postprocess.
C9_Original ==
    (variant = "sim" /\ hstage = "done") =>
        /\ \A n \in Keys(start_subsubtests) : cleanups[start_subsubtests[n]] = 1
        /\ todo = {}
        /\ cleanup_raised =
              IF cleanup_failures # {}
              THEN Report("DockerTestError", "cleanup", cleanup_failures)
              ELSE NoExc

\* C10: sequential variant: if a child's cleanup() raises, run_all_stages
\* raises a TestError naming that child, also when all three stages of the
\* child succeeded; the child stays in final_subsubtests, and the error is
\* not the DockerTestFail report of postprocess, which is never reached.
C10_CleanupFailure ==
    (variant = "seq" /\ cur.cleanup_exc # NoExc) =>
        /\ raised = [kind |-> "TestError", inst |-> cur.inst, stage |-> "cleanup",
                     report |-> {cur.name}]
        /\ hstage \in {"cleanup", "done"}
        /\ cur.added => cur.name \in final_subsubtests
        /\ cur.added <=> cur.stage_exc = NoExc
        /\ ~post_result.done

C10_Witness ==
    /\ variant = "seq" /\ hstage = "done"
    /\ cur.cleanup_exc.kind = "Exception"
    /\ cur.added /\ cur.name \in final_subsubtests
    /\ raised.kind = "TestError" /\ raised.report = {cur.name}

\* C11 as stated: both variants: a configured child whose constructor
\* signals not-applicable ('enable' false, or its section listed in
\* 'disable') is skipped: no not-applicable error of a constructor ever
\* leaves the orchestrator.
C11_Original ==
    ~(raised.stage = "new_subsubtest"
      /\ raised.kind \in {"DockerSubSubtestNAError", "DockerTestNAError"})

\* C12 as stated: both variants: when the orchestrator's postprocess makes
\* its comparison, a child one of whose stages raised DockerTestNAError is
\* not named in the failure report.
C12_Original ==
    post_result.done =>
        /\ (variant = "seq" /\ cur.stage_exc.kind = "DockerTestNAError") =>
              cur.name \notin raised.report
        /\ variant = "sim" =>
              \A i \in 1..ninst :
                 sim_calls[i].na => sim_calls[i].name \notin raised.report

\* The stage methods of a full run, cleanup left out.
RECURSIVE Iterations(_)
Iterations(n) ==
    IF n = 0 THEN <<>>
    ELSE <<"run_once", "postprocess_iteration">> \o Iterations(n - 1)

FullRun == <<"initialize">> \o Iterations(iterations) \o <<"postprocess">>

SectionListed ==
    /\ disable # NoOption
    /\ \A k \in 1..Len(config_section) : config_section[k] # ","
    /\ \E i \in 0..(Len(disable) - Len(config_section)) :
          /\ SubSeq(disable, i + 1, i + Len(config_section)) = config_section
          /\ i = 0 \/ disable[i] = ","
          /\ i + Len(config_section) = Len(disable)
             \/ disable[i + Len(config_section) + 1] = ","

\* C14 as stated: a Subtest whose config_section equals one of the
\* comma-separated entries of its 'disable' option raises DockerTestNAError
\* in its constructor, before any stage is entered; when the section is not
\* listed (or there is no 'disable' option) construction completes and no
\* not-applicable error is raised by it.
C14_Original ==
    hstage # "construct" =>
        /\ SectionListed =>
              /\ hstage = "not_constructed"
              /\ raised = Exc("DockerTestNAError", 0, "__init__")
              /\ entered = <<>>
        /\ ~SectionListed =>
              /\ hstage # "not_constructed"
              /\ raised.stage # "__init__"

\* A lookup has been made and found the key.
Found == lk_result.type \notin {"none", "DockerKeyError"}

\* The string stored for the key of the last lookup.
Stored == RawGet(cd_own, cd_defaults, Lower(lk_key))

\* C18 as stated: typed lookup returns "0" as boolean false and not as
\* integer 0, "42" as integer 42, "3.14" as float 3.14, "hello" as the
\* string "hello".
C18_Original ==
    Found =>
        /\ Stored = <<"0">> => lk_result = Bool(FALSE)
        /\ Stored = <<"4", "2">> => lk_result = Typed("int", 42, 0, <<>>)
        /\ Stored = <<"3", ".", "1", "4">> =>
              lk_result = Typed("float", 314, 2, <<>>)
        /\ Stored = <<"h", "e", "l", "l", "o">> =>
              lk_result = Typed("str", 0, 0, Stored)

\* C18 (amended): typed lookup returns "0" as integer 0 and not as boolean
\* false, "42" as integer 42, "3.14" as float 3.14, "hello" as the string
\* "hello".
C18_TypedExamples ==
    Found =>
        /\ Stored = <<"0">> => lk_result = Typed("int", 0, 0, <<>>)
        /\ Stored = <<"4", "2">> => lk_result = Typed("int", 42, 0, <<>>)
        /\ Stored = <<"3", ".", "1", "4">> =>
              lk_result = Typed("float", 314, 2, <<>>)
        /\ Stored = <<"h", "e", "l", "l", "o">> =>
              lk_result = Typed("str", 0, 0, Stored)

C18_Witness ==
    /\ Found /\ Stored = <<"0">>
    /\ lk_result.type = "int" /\ lk_result.num = 0

\* The string is an integer literal: digits, after an optional sign, with
\* surrounding whitespace allowed.
LooksInteger(s) ==
    \E i, j \in 1..Len(s) :
        /\ i <= j
        /\ \A k \in 1..Len(s) :
              IF k < i \/ k > j THEN s[k] = " "
              ELSE s[k] \in Range(Digits) \/ (k = i /\ i < j /\ s[k] \in {"+", "-"})

\* The string is a decimal literal with a point.
LooksDecimal(s) ==
    /\ Cardinality({k \in 1..Len(s) : s[k] = "."}) = 1
    /\ LooksInteger(SelectSeq(s, LAMBDA c : c # "."))

\* The words the boolean step takes in any case and with whitespace around.
YesWords == {<<"y", "e", "s">>, <<"t", "r", "u", "e">>}

NoWords == {<<"n", "o">>, <<"f", "a", "l", "s", "e">>}

\* C19: typed lookup returns an integer for every string that is an integer
\* literal (also "0" and "1"); otherwise a boolean for yes/true/no/false in
\* any letter case with surrounding whitespace ignored, and for on/off in any
\* letter case; otherwise a float for a decimal literal; otherwise the raw
\* string itself. No lookup of a defined key fails.
C19_CoercionOrder ==
    Found =>
        LET s == Stored
            w == Strip(Lower(s))
            yes == w \in YesWords \/ Lower(s) = <<"o", "n">>
            no == w \in NoWords \/ Lower(s) = <<"o", "f", "f">>
        IN /\ lk_result.type \in {"int", "bool", "float", "str"}
           /\ lk_result.type = "int" <=> LooksInteger(s)
           /\ lk_result.type = "bool" <=> (~LooksInteger(s) /\ (yes \/ no))
           /\ lk_result.type = "bool" => (lk_result.num = 1 <=> yes)
           /\ lk_result.type = "float" <=>
                 (~LooksInteger(s) /\ ~(yes \/ no) /\ LooksDecimal(s))
           /\ lk_result.type = "str" => lk_result.text = s
           /\ s = <<" ", "-", "7">> => lk_result = Typed("int", -7, 0, <<>>)
           /\ s = <<"0", "0", "7", " ">> => lk_result = Typed("int", 7, 0, <<>>)
           /\ s = <<"1">> => lk_result = Typed("int", 1, 0, <<>>)
           /\ s = <<" ", ".", "5">> => lk_result = Typed("float", 5, 1, <<>>)
           /\ s = <<" ", "o", "n">> => lk_result = Typed("str", 0, 0, s)

C19_Witness ==
    /\ Found /\ Stored = <<" ", "Y", "E", "S", " ">>
    /\ lk_result = Bool(TRUE)

\* The option names the mapping defines, its own and the defaults'.
Defined ==
    {o \in OptionNames : cd_own[o] # NoOption \/ cd_defaults[o] # NoOption}

\* C20: a lookup raises DockerKeyError if and only if the lower-cased key is
\* defined neither by the section nor by the defaults, whatever the case of
\* the key asked for; a found key gives the section's own value before the
\* default's; and a lookup leaves the mapping as it was.
C20_KeyLookup ==
    /\ [](lk_result # NoLookup =>
            /\ lk_result.type = "DockerKeyError" <=> Lower(lk_key) \notin Defined
            /\ Found => lk_result =
                  TypedLookup(IF cd_own[Lower(lk_key)] # NoOption
                              THEN cd_own[Lower(lk_key)]
                              ELSE cd_defaults[Lower(lk_key)]))
    /\ [][lk_result' # NoLookup => UNCHANGED <<cd_own, cd_defaults>>]_vars

C20_Witness ==
    /\ lk_key = <<"K">> /\ Found
    /\ cd_own[<<"k">>] = NoOption /\ cd_defaults[<<"k">>] = <<"4", "2">>
    /\ lk_result = Typed("int", 42, 0, <<>>)

\* ------------------------------------------------ claims about Config()
\* What the copy a Config() call returned shows now, section by section.
View(c) ==
    [sec \in CopySections |->
        IF copies[c].sections[sec] = NoAddress
        THEN [present |-> FALSE, items |-> NoItems]
        ELSE [present |-> TRUE, items |-> Items(heap[copies[c].sections[sec]])]]

\* The copies nobody has changed.
Unmutated == {c \in 1..Len(copies) : ~copies[c].raised /\ copies[c].mutations = 0}

\* The ini files in the order they are read.
ReadOrder(fs) ==
    SelectSeq(fs["config_defaults"] \o fs["config_custom"],
              LAMBDA file : file.name \in IniNames)

\* A section as the ini files define it: as the last file read that declares
\* it does.
InFiles(fs, sec) ==
    LET order == ReadOrder(fs)
        declaring == {i \in 1..Len(order) : order[i].sections[sec].present}
    IN IF declaring = {} THEN NoSection
       ELSE order[CHOOSE i \in declaring :
                      \A j \in declaring : j <= i].sections[sec]

\* The sections as the files the cache was built from define them.
Declared == [sec \in Sections |-> InFiles(built_from, sec)]

\* The files the cache was built from have a DEFAULTS section.
Loadable == InFiles(built_from, "DEFAULTS").present

\* The strings the ini files hold, as typed values.
FileValue(s) ==
    CASE s = <<"4", "2">> -> Typed("int", 42, 0, <<>>)
      [] s = <<"0">> -> Typed("int", 0, 0, <<>>)
      [] s = <<"7">> -> Typed("int", 7, 0, <<>>)
      [] s = <<"3", ".", "5">> -> Typed("float", 35, 1, <<>>)
      [] s = <<"y", "e", "s">> -> Bool(TRUE)
      [] s = <<"n", "o">> -> Bool(FALSE)

\* C15: in the mapping Config() returns, a key of a section has the section's
\* own value when the section defines the key and the DEFAULTS value when only
\* DEFAULTS defines it, also in a section without own keys; a section that
\* overrides a key leaves the value every other section sees as it was.
C15_Defaulting ==
    LET declared == Declared
    IN declared["DEFAULTS"].present =>
        \A sec \in Sections : declared[sec].present =>
            \A key \in OptionNames :
                LET own == declared[sec].options[key]
                    default == declared["DEFAULTS"].options[key]
                    others == {o \in Sections \ {sec} :
                                  /\ declared[o].present
                                  /\ declared[o].options[key] = NoOption}
                IN \A c \in Unmutated :
                    /\ own # NoOption =>
                           View(c)[sec].items[key] = FileValue(own)
                    /\ own = NoOption /\ default # NoOption =>
                           View(c)[sec].items[key] = FileValue(default)
                    /\ own # NoOption /\ default # NoOption =>
                           \A other \in others :
                               View(c)[other].items[key] = FileValue(default)

\* A section without own keys shows the DEFAULTS value while another
\* section overrides it.
C15_Witness ==
    \E c \in Unmutated :
        /\ InFiles(built_from, "S").present
        /\ InFiles(built_from, "S").options = NoOptions
        /\ View(c)["S"].items[<<"k">>] = Absent
        /\ View(c)["S"].items[<<"j">>] = Bool(FALSE)
        /\ View(c)["T"].items[<<"j">>] = Typed("float", 35, 1, <<>>)
        /\ View(c)["T"].items[<<"k">>] = Absent

\* The content loaded into the cache, as the files it was built from give it.
Loaded ==
    LET declared == Declared
    IN [sec \in CopySections |->
        IF sec \in Sections /\ declared["DEFAULTS"].present
                            /\ declared[sec].present
        THEN [present |-> TRUE,
              items |-> [key \in OptionNames |->
                  LET own == declared[sec].options[key]
                      default == declared["DEFAULTS"].options[key]
                  IN IF own # NoOption THEN FileValue(own)
                     ELSE IF default # NoOption THEN FileValue(default)
                     ELSE Absent]]
        ELSE [present |-> FALSE, items |-> NoItems]]

\* C16: whatever callers do to the copies they got, every copy nobody changed,
\* made before or after those changes, shows exactly the content that was
\* loaded into the cache.
C16_CacheIsolation == LET loaded == Loaded IN \A c \in Unmutated : View(c) = loaded

\* A first copy left alone, a second one changed, a third one made after the
\* change.
C16_Witness ==
    /\ Len(copies) = 3
    /\ Unmutated = {1, 3}
    /\ ~copies[2].raised
    /\ copies[3].after > 0
    /\ View(2) # View(1)
    /\ Loaded["S"].present

\* C17: the ini files are read at most once for the defaults cache and at most
\* once for the configs cache, the first Config() call builds the configs
\* cache, and a cache that is built keeps its content in every later step.
C17_BuiltOnce ==
    /\ [](/\ reads.defaults <= 1
          /\ reads.configs <= 1
          /\ copies # <<>> => configs_.built /\ reads.configs = 1
          /\ defaults_.built => reads.defaults = 1)
    /\ [][/\ defaults_.built => defaults_' = defaults_
          /\ configs_.built =>
                 /\ configs_' = configs_
                 /\ \A sec \in Sections :
                        configs_.sections[sec] # NoAddress =>
                            heap'[configs_.sections[sec]] =
                                heap[configs_.sections[sec]]]_vars

\* A Config() call made after the ini files were edited returned a copy, and
\* the files had been read once.
C17_Witness ==
    /\ \E c \in 2..Len(copies) : copies[c].stale /\ ~copies[c].raised
    /\ reads.defaults = 1
    /\ reads.configs = 1
    /\ files # built_from

\* The ConfigDict the configs cache holds for a section.
Cached(sec) == heap[configs_.sections[sec]]

\* C21: the files of config_defaults are read before those of config_custom,
\* and a section's own keys after loading are exactly those of the last file
\* read that declares it; a key only an earlier file gave the section is
\* visible afterwards exactly when DEFAULTS supplies it.
C21_LoadingOrder ==
    configs_.built /\ defaults_.built =>
        LET declared == Declared
        IN \A sec \in Sections :
            /\ configs_.sections[sec] # NoAddress <=> declared[sec].present
            /\ declared[sec].present =>
                /\ Cached(sec).own = declared[sec].options
                /\ \A key \in OptionNames :
                       declared[sec].options[key] = NoOption =>
                           (key \in KeySet(Cached(sec).own, Cached(sec).defaults)
                                <=> defaults_.options[key] # NoOption)

\* S is declared with the options k and j by a.ini and with k alone by a file
\* read later; DEFAULTS does not have j, and S has lost it.
C21_Witness ==
    /\ configs_.built /\ defaults_.built
    /\ \E i \in 1..Len(ReadOrder(built_from)) :
           /\ ReadOrder(built_from)[i].sections["S"].options[<<"j">>] = <<"7">>
           /\ \E j \in (i + 1)..Len(ReadOrder(built_from)) :
                  ReadOrder(built_from)[j] = FileB
    /\ defaults_.options[<<"j">>] = NoOption
    /\ Cached("S").own[<<"k">>] = <<"y", "e", "s">>
    /\ <<"j">> \notin KeySet(Cached("S").own, Cached("S").defaults)
    /\ \E c \in Unmutated : View(c)["S"].items[<<"j">>] = Absent

\* The DEFAULTS section of a directory's defaults.ini in the files the caches
\* were built from.
DefaultsOf(dir) ==
    LET named == SelectSeq(built_from[dir], LAMBDA file : file.name = DefaultsFile)
    IN IF named = <<>> THEN NoSection ELSE named[1].sections["DEFAULTS"]

\* C22: the defaults are exactly the DEFAULTS options of config_custom's
\* defaults.ini when it has that section, and exactly those of
\* config_defaults's defaults.ini otherwise; the two are never merged.
C22_DefaultsFromOneFile ==
    defaults_.built =>
        /\ DefaultsOf("config_custom").present =>
               defaults_.options = DefaultsOf("config_custom").options
        /\ ~DefaultsOf("config_custom").present =>
               /\ DefaultsOf("config_defaults").present
               /\ defaults_.options = DefaultsOf("config_defaults").options

\* Both directories have a DEFAULTS section, with different options, and the
\* defaults have only the option of config_custom.
C22_Witness ==
    /\ defaults_.built
    /\ DefaultsOf("config_custom").present
    /\ DefaultsOf("config_defaults").options[<<"k">>] = <<"4", "2">>
    /\ defaults_.options[<<"k">>] = NoOption
    /\ defaults_.options[<<"j">>] = <<"n", "o">>

\* The child's own section in the ini files.
ChildSection == ini.child

\* C23 as stated: the child's config has, for every option the child's own
\* section defines, that section's value, and for every other option the
\* parent's value; without such a section it equals the parent's config.
C23_Original ==
    hstage = "child" =>
        IF ChildSection.present
        THEN \A key \in OptionNames :
                 IF ChildSection.options[key] # NoOption
                 THEN child_config[key] = FileValue(ChildSection.options[key])
                 ELSE child_config[key] = parent_config[key]
        ELSE child_config = parent_config

\* C24 as stated: in the sequential variant a child whose class cannot be
\* loaded makes new_subsubtest return None and the loop go on with the next
\* name: no exception of the lookup ever leaves new_subsubtest.
C24_Original ==
    variant = "seq" =>
        ~(raised.stage = "new_subsubtest" /\ raised.kind = "Exception")

\* The place of a child's name in the names of 'subsubtests'.
Position(name) ==
    CHOOSE i \in 1..Len(subsubtest_names) :
        /\ subsubtest_names[i] = name
        /\ \A j \in 1..(i - 1) : subsubtest_names[j] # name

\* C25 as stated: in the simultaneous variant every stage visits the
\* children in the order of the names in 'subsubtests': the child a loop
\* over a dictionary visits next comes before all children the loop still
\* has to visit.
C25_Original ==
    [][(variant = "sim" /\ todo' # todo /\ todo' \subseteq todo) =>
           \A visited \in todo \ todo', later \in todo' :
               Position(visited) < Position(later)]_vars

\* Simultaneous variant: the started names whose instance was called in all
\* three stages and raised in none of them.
PassedAllStages ==
    {name \in Started :
        LET calls == sim_calls[start_subsubtests[name]]
        IN /\ calls.initialize > 0 /\ calls.run_once > 0 /\ calls.postprocess > 0
           /\ calls.failed = {}}

\* C26 as stated, for the simultaneous variant: once the orchestrator's
\* postprocess has made its comparison, the attribute final_subsubtests
\* holds the started names that completed initialize, run_once and
\* postprocess without exception.
C26_Original ==
    (variant = "sim" /\ post_result.done) =>
        final_subsubtests = PassedAllStages

\* TextTableTest.expected
ExampleExpected ==
    <<(<<"o", "n", "e">> :> <<"f", "o", "o">> @@
         <<"t", "w", "o">> :> <<"b", "a", "r">> @@
         <<"t", "h", "r", "e", "e">> :> None),
      (<<"o", "n", "e">> :> <<"1">> @@
         <<"t", "w", "o">> :> <<"2">> @@
         <<"t", "h", "r", "e", "e">> :> <<"3", " ", " ", " ", "4">>),
      (<<"o", "n", "e">> :> None @@
         <<"t", "w", "o">> :> None @@
         <<"t", "h", "r", "e", "e">> :> None),
      (<<"o", "n", "e">> :> <<"a">> @@
         <<"t", "w", "o">> :> <<"b">> @@
         <<"t", "h", "r", "e", "e">> :> <<"c">>)>>

\* The characters of a line at the offsets of a column.
ColumnText(line, column) ==
    LET last == IF column.end = NoEnd THEN Len(line) ELSE column.end
        at == {p \in 1..Len(line) : column.start < p /\ p <= last}
    IN [i \in 1..Cardinality(at) |-> line[column.start + i]]

\* A text without the blanks at its ends.
RECURSIVE Trimmed(_)
Trimmed(text) ==
    IF text = <<>> THEN text
    ELSE IF Head(text) = " " THEN Trimmed(Tail(text))
    ELSE IF text[Len(text)] = " " THEN Trimmed(SubSeq(text, 1, Len(text) - 1))
    ELSE text

\* The row a line of the table should give.
ExpectedRow(line, columns, row) ==
    \A c \in columns :
        row[c.name] = IF Trimmed(ColumnText(line, c)) = <<>> THEN None
                      ELSE Trimmed(ColumnText(line, c))

NoEqualRows(rows) ==
    \A i, j \in 1..Len(rows) : rows[i] = rows[j] => i = j

\* C28: a table just parsed has no two equal rows; while duplicates are not
\* allowed, an append to a table without equal rows leaves it without
\* equal rows, and the append of a row the table has leaves the table
\* unchanged; with allow_duplicate set, the append of a row the table has
\* makes it one row longer.
C28_DuplicateSuppression ==
    /\ [](table_op.op = "TextTable" => NoEqualRows(table.rows))
    /\ [][table_op'.op = "append" =>
             IF table.allow_duplicate
             THEN table_op'.arg \in Range(table.rows) =>
                      Len(table'.rows) = Len(table.rows) + 1
             ELSE /\ NoEqualRows(table.rows) => NoEqualRows(table'.rows)
                  /\ table_op'.arg \in Range(table.rows) => table' = table]_vars

\* The all-None row was appended to the table of the example, which has it,
\* with duplicates not allowed: the table still has its four rows.
C28_Witness ==
    /\ table_op.op = "append"
    /\ ~table.allow_duplicate
    /\ table.rows = ExampleExpected
    /\ table_op.arg = ExampleExpected[3]

\* C29: ColumnRanges raises ValueError, and gives no columns, for a header
\* that is empty, or only blanks, or only control characters, or only
\* newlines.
C29_BlankHeaderRaises ==
    table_op.op = "ColumnRanges" =>
        LET header == table_op.arg
            Only(chars) == \A i \in 1..Len(header) : header[i] \in chars
        IN (header = <<>> \/ Only({" "}) \/ Only(ControlChars) \/ Only({"\n"})) =>
               table_op.result = [error |-> "ValueError", columns |-> {}]

\* ColumnRanges was given two control characters, and raised.
C29_Witness ==
    /\ table_op.op = "ColumnRanges"
    /\ table_op.arg = <<Nul, Nul>>
    /\ table_op.result.error = "ValueError"

\* The kill commands run for a container.
Kills(cmds, long_id) ==
    Cardinality({i \in 1..Len(cmds) :
                    cmds[i] = [cmd |-> "kill", long_id |-> long_id]})

\* C30 as stated, a kill command that fails left aside: a call of
\* kill_container_by_long_id raises KeyError when the daemon has no
\* container of that id, and ValueError when the container is not running
\* or its process is not alive, without a kill command in both cases;
\* otherwise it runs exactly one kill command for the id and, when that
\* succeeds, returns the pid of the container.
C30_Original ==
    [][commands' # commands =>
          LET long_id == kill_result'.long_id
              container == containers[long_id]
              kills == Kills(commands', long_id) - Kills(commands, long_id)
          IN CASE container.state = "absent" ->
                    kill_result'.raised = "KeyError" /\ kills = 0
               [] container.state \in {"stopped", "defunct"} ->
                    kill_result'.raised = "ValueError" /\ kills = 0
               [] OTHER ->
                    /\ kills = 1
                    /\ kill_result'.raised \in {"none", "CmdError"}
                    /\ kill_result'.raised = "none" =>
                           kill_result'.pid = container.pid]_vars

\* Entries put together again, with commas between them.
RECURSIVE CommaJoined(_)
CommaJoined(entries) ==
    IF entries = <<>> THEN <<>>
    ELSE IF Len(entries) = 1 THEN entries[1]
    ELSE entries[1] \o <<",">> \o CommaJoined(Tail(entries))

\* C31 as stated: initialize raises DockerTestNAError when the 'subsubtests'
\* option is empty; otherwise it raises nothing and subsubtest_names are the
\* entries the commas of the option separate, in their order, and run_once
\* calls new_subsubtest with these names in that order.
C31_Original ==
    hstage # "initialize" =>
        IF option_text = <<>>
        THEN raised.kind = "DockerTestNAError"
        ELSE /\ raised = NoExc
             /\ subsubtest_names # <<>>
             /\ CommaJoined(subsubtest_names) = option_text
             /\ \A i \in 1..Len(subsubtest_names) :
                    "," \notin Range(subsubtest_names[i])
             /\ new_calls = SubSeq(subsubtest_names, 1, Len(new_calls))

\* C32 as stated: with docker_expected_result = FAIL, postprocess of
\* tag_base fails the test when the tag command exited with status zero,
\* and passes it when the command exited non-zero with acceptable output.
C32_Original ==
    (verdict.test = "tag" /\ verdict.expected = "FAIL"
         /\ verdict.outcome # "none") =>
        /\ cmdresult.exit_status = 0 => verdict.outcome = "DockerTestFail"
        /\ (cmdresult.exit_status # 0 /\ cmdresult.good) =>
               verdict.outcome = "pass"

\* C33 as stated: postprocess of flag passes only when the docker command
\* exited non-zero and searched_info is in its stderr; in every other case
\* the test fails.
C33_Original ==
    (verdict.test = "flag" /\ verdict.outcome # "none") =>
        IF cmdresult.exit_status # 0
               /\ In(verdict.searched_info, cmdresult.stderr)
        THEN verdict.outcome = "pass"
        ELSE verdict.outcome = "DockerTestFail"

\* C34: in every reachable state the tracking sets are nested: sequential
\* variant: final_subsubtests is a subset of the keys of start_subsubtests;
\* simultaneous variant: the keys of post_subsubtests are a subset of the
\* keys of run_subsubtests, which are a subset of the keys of
\* start_subsubtests.
C34_Nested ==
    /\ variant = "seq" => final_subsubtests \subseteq Keys(start_subsubtests)
    /\ variant = "sim" =>
           /\ Keys(post_subsubtests) \subseteq Keys(run_subsubtests)
           /\ Keys(run_subsubtests) \subseteq Keys(start_subsubtests)

\* A child passed run_once while another one, started as well, was not
\* admitted to run_once.
C34_Witness ==
    /\ variant = "sim"
    /\ Keys(post_subsubtests) # {}
    /\ Keys(run_subsubtests) # Keys(start_subsubtests)

\* A stage of the child cur raised.
StageFailed == cur.inst > 0 /\ cur.stage_exc # NoExc

\* C35 as stated: sequential variant with iterations >= 2: a child that
\* failed a stage in some iteration (here: the last child of the last
\* iteration) is reported as failed by the postprocess of the orchestrator,
\* whatever it did in another iteration.
C35_Original ==
    (variant = "seq" /\ iterations >= 2 /\ post_result.done /\ StageFailed) =>
        /\ raised.kind = "DockerTestFail"
        /\ cur.name \in raised.report

\* C36 as stated: simultaneous variant: when the cleanup of the orchestrator
\* is over, every child instance initialize was invoked on has had cleanup
\* invoked exactly once, also when a name is listed more than once.
C36_Original ==
    (variant = "sim" /\ hstage = "done") =>
        \A inst \in 1..ninst :
            sim_calls[inst].initialize > 0 => cleanups[inst] = 1

\* C38: sequential variant: at most one child is live: every instance but
\* the newest has had its cleanup invoked (once), and the newest is without
\* it only while run_all_stages is running it; so a child is constructed
\* only after the cleanup of the one before it.
C38_OneChildLive ==
    variant = "seq" =>
        \A inst \in 1..ninst :
            /\ cleanups[inst] <= 1
            /\ cleanups[inst] = 0 => inst = ninst /\ inst = cur.inst
                                      /\ SeqChildInProgress

\* The second child is in its stages, the first one has been cleaned up.
C38_Witness ==
    /\ variant = "seq" /\ ninst >= 2 /\ SeqChildInProgress
    /\ cur.calls # <<>>
    /\ cleanups[ninst - 1] = 1 /\ cleanups[ninst] = 0

\* run_all_stages is over for the child cur, after a stage of it raised
\* something that is no AutotestError or its cleanup raised.
RaisedOutOfChild ==
    /\ SeqChildOver
    /\ \/ cur.stage_exc # NoExc /\ ~IsAutotestError(cur.stage_exc.kind)
       \/ cur.cleanup_exc # NoExc

\* The names listed after the child cur in subsubtest_names.
LaterPositions == (idx + 1)..Len(subsubtest_names)

\* No child after cur was instantiated, run or cleaned up.
NoLaterChild ==
    /\ hstage \in {"cleanup", "done"}
    /\ ninst = cur.inst
    /\ subsubtest_names[idx] = cur.name
    /\ cur.calls # <<>> /\ cur.calls[Len(cur.calls)] = "cleanup"

CacheAddresses == {refs.cache.defaults, refs.cache.parent, refs.cache.child}

\* C37: a step of a child (its construction, make_subsubtest_config
\* included, or a write to its config) leaves the config of the parent, the
\* dictionaries of the Config cache and the config of every other child as
\* they are.
C37_Frame ==
    [][/\ refs'.parent = refs.parent
       /\ refs'.cache = refs.cache
       /\ dicts'[refs.parent] = dicts[refs.parent]
       /\ \A a \in CacheAddresses : dicts'[a] = dicts[a]
       /\ \A i \in 1..Len(refs.children) :
              i # refs'.last =>
                  /\ refs'.children[i] = refs.children[i]
                  /\ dicts'[refs.children[i]] = dicts[refs.children[i]]]_vars

\* Two children, the first of which no longer has the config of the parent
\* or that of the second.
C37_Witness ==
    /\ Len(refs.children) = 2
    /\ dicts[refs.children[1]] # dicts[refs.parent]
    /\ dicts[refs.children[1]] # dicts[refs.children[2]]
    /\ refs.last = 1

\* run_once is inside its polling loop.
InPollingLoop == polling.pc \in {"loop", "sleep"}

\* C40 as stated: once the background command has finished, the polling
\* loop of run_once ends, whatever the command printed, in rmi_base,
\* tag_base and run_signal alike, and run_once goes on towards its final
\* wait().
C40_Original == dkrcmd.done ~> ~InPollingLoop

====
